---- MODULE Spec2Model ----
(***************************************************************************)
(* Model of the asynchronous adapter of udt-rs: the futures of lib.rs      *)
(* (poll_read, poll_write, poll_flush, poll_close, AcceptFuture::poll,     *)
(* ConnectFuture::poll), the Epoll wrapper they suspend on, the background *)
(* threads they spawn, and the native UDT library as their environment.    *)
(***************************************************************************)
EXTENDS Integers, Sequences, FiniteSets, TLC

\* ---------------------------------------------------------------- bounds
MaxPolls == 3
MaxBytes == 2
MaxBuf == 2
MaxCalls == 2
MaxThreads == 4

\* ------------------------------------------------------ program constants
UDT_ERROR == -1
UDT_INVALID_SOCK == -1
UDT_EPOLL_IN == 1
UDT_EPOLL_OUT == 4
WAIT_FOREVER == -1
CONNECT_DELAY_MS == 500

Ops == {"read", "write", "flush", "close", "accept", "connect"}
Statuses == {"Init", "Opened", "Listening", "Connecting", "Connected",
             "Broken", "Closing", "Closed", "NonExist"}

\* ------------------------------------------------------------ error.rs
\* A Result is a record; val is always an integer (a byte count, a socket
\* id, or 0 for the unit value), err is the UdtError variant, msg its text
\* and kind the io::ErrorKind once the error was converted to io::Error.
Ok(v) == [tag |-> "Ok", val |-> v, err |-> "", msg |-> "", kind |-> ""]
Err(variant, m) == [tag |-> "Err", val |-> 0, err |-> variant, msg |-> m, kind |-> ""]
PollPending == [tag |-> "Pending", val |-> 0, err |-> "", msg |-> "", kind |-> ""]
None == [tag |-> "None", val |-> 0, err |-> "", msg |-> "", kind |-> ""]

\* impl From<i32> for UdtError: the variant a native error code maps to.
UdtErrorFrom(code) ==
    CASE code = 0 -> "Success"
      [] code = 1000 -> "ConnSetup"
      [] code = 1001 -> "NoServer"
      [] code = 1002 -> "ConnRej"
      [] code = 1003 -> "SockFail"
      [] code = 1004 -> "SecFail"
      [] code = 2000 -> "ConnFail"
      [] code = 2001 -> "ConnLost"
      [] code = 2002 -> "NoConn"
      [] code = 3000 -> "Resource"
      [] code = 3001 -> "Thread"
      [] code = 3002 -> "NoBuf"
      [] code = 4000 -> "File"
      [] code = 4001 -> "InvRdOff"
      [] code = 4002 -> "RdPerm"
      [] code = 4003 -> "InvWrOff"
      [] code = 4004 -> "WrPerm"
      [] code = 5000 -> "InvOp"
      [] code = 5001 -> "BoundSock"
      [] code = 5002 -> "ConnSock"
      [] code = 5003 -> "InvParam"
      [] code = 5004 -> "InvSock"
      [] code = 5005 -> "UnboundSock"
      [] code = 5006 -> "NoListen"
      [] code = 5007 -> "RdvNoServ"
      [] code = 5008 -> "RdvUnbound"
      [] code = 5009 -> "StreamIll"
      [] code = 5010 -> "DgramIll"
      [] code = 5011 -> "DupListen"
      [] code = 5012 -> "LargeMsg"
      [] code = 6000 -> "AsyncFail"
      [] code = 6001 -> "AsyncSnd"
      [] code = 6002 -> "AsyncRcv"
      [] code = 6003 -> "Timeout"
      [] code = 7000 -> "PeerErr"

\* get_error_desc: the native description of the last error.
get_error_desc(code) == "native"

\* get_error(ok): read the last native error code; a code that reads as
\* Success gives Ok(ok), every other code gives Err.
get_error(code, ok) ==
    IF UdtErrorFrom(code) = "Success" THEN Ok(ok)
    ELSE Err(UdtErrorFrom(code), get_error_desc(code))

\* impl From<UdtError> for io::Error: the ErrorKind of each variant.
ErrorKind(variant) ==
    CASE variant \in {"ConnSetup", "NoServer", "ConnRej", "SecFail", "ConnFail",
                      "RdvNoServ", "RdvUnbound"} -> "ConnectionRefused"
      [] variant \in {"SockFail", "InvSock"} -> "AddrNotAvailable"
      [] variant = "ConnLost" -> "ConnectionAborted"
      [] variant \in {"NoConn", "UnboundSock"} -> "NotConnected"
      [] variant = "File" -> "NotFound"
      [] variant \in {"InvRdOff", "InvWrOff", "InvOp", "InvParam", "NoListen",
                      "StreamIll", "DgramIll"} -> "InvalidInput"
      [] variant \in {"RdPerm", "WrPerm"} -> "PermissionDenied"
      [] variant \in {"BoundSock", "ConnSock", "DupListen"} -> "AddrInUse"
      [] variant \in {"AsyncFail", "AsyncSnd", "AsyncRcv"} -> "WouldBlock"
      [] variant = "Timeout" -> "TimedOut"
      [] OTHER -> "Other"

\* e.into(): the io::Error that wraps the UdtError e.
IoError(e) == [e EXCEPT !.kind = ErrorKind(e.err)]

\* ----------------------------------------------------------------- state
VARIABLES
    fut,        \* fut[t]: the future of task t: op, socket, st, res, polls, owner
    woken,      \* woken[t]: the task's waker was invoked since its last poll
    lastPoll,   \* lastPoll[t]: what the last poll step of t observed
    seen,       \* seen[t]: the statuses get_state returned to t's polls
    sock,       \* sock[s]: the native state of socket s
    nsets,      \* nsets[id]: the native readiness sets, by epoll id: the registered
                \* <<socket, interest>> pairs (reg), the listeners whose queued
                \* connection the set got no event for (missed), the calls made (log)
    stray,      \* ids udt_epoll_release was called on that were no live set
    threads     \* the owners of an Epoll: the background threads spawned so far
                \* (kind wait / sleep) and a direct user of the Epoll API (direct)

vars == <<fut, woken, lastPoll, seen, sock, nsets, stray, threads>>

\* the tasks are the owners of the futures, each with its own socket; the
\* sockets are those and the ones udt_accept hands out to their listeners
Tasks == DOMAIN fut
SockIds == DOMAIN sock
AcceptedId(t) == Cardinality(DOMAIN fut) + t

NoObs == [attempt |-> None, snd |-> None, new |-> None, add |-> None,
          cfg_r |-> None, cfg_s |-> None, close |-> None,
          spawned |-> FALSE, eid |-> 0, gap |-> FALSE]

InitSock(status, rs, ss) ==
    [status |-> status, rcvq |-> 0, snddata |-> 0, backlog |-> 0,
     rcvsyn |-> rs, sndsyn |-> ss, closes |-> 0]

\* The state after construction: every task holds one future on its own
\* socket.  A stream is connected, a listener listens, and a ConnectFuture
\* can be built on a socket in any status.  The sockets accept hands out do
\* not exist yet.
InitOver(T) ==
    /\ \E ops \in [T -> Ops] :
          fut = [t \in T |-> [op |-> ops[t], socket |-> t, st |-> "new",
                                  res |-> None, polls |-> 0, owner |-> "alive"]]
    /\ woken = [t \in T |-> FALSE]
    /\ lastPoll = [t \in T |-> NoObs]
    /\ seen = [t \in T |-> <<>>]
    /\ \E sts \in [T -> Statuses], rs \in [T -> BOOLEAN], ss \in [T -> BOOLEAN],
          q \in [T -> 0 .. MaxBytes], p \in [T -> 0 .. MaxBytes] :
          /\ \A t \in T :
                /\ fut[t].op \in {"read", "write", "flush", "close"} =>
                      sts[t] = "Connected" /\ ~rs[t] /\ ~ss[t]
                /\ fut[t].op = "accept" => sts[t] = "Listening" /\ q[t] = 0 /\ p[t] = 0
                /\ fut[t].op = "connect" => ~rs[t] /\ ~ss[t] /\ q[t] = 0 /\ p[t] = 0
          /\ sock = [s \in 1 .. (2 * Cardinality(T)) |->
                       IF s \in T
                       THEN [InitSock(sts[s], rs[s], ss[s]) EXCEPT !.rcvq = q[s], !.snddata = p[s]]
                       ELSE InitSock("NonExist", TRUE, TRUE)]
    /\ nsets = <<>>
    /\ stray = {}
    /\ threads = <<>>

\* one future under poll
InitTasks == {1}

Init == InitOver(InitTasks)

\* ------------------------------------------- the native library (udt_sys)
Min(a, b) == IF a < b THEN a ELSE b

\* A native call returns ret (UDT_ERROR / UDT_INVALID_SOCK on failure), sets
\* the calling thread's last error code, and leaves the socket as sk.
NativeRet(r, c, k) == [ret |-> r, code |-> c, sk |-> k]

\* udt_recv on a non-blocking socket with a buffer of len bytes.
udt_recv(sk, len) ==
    CASE sk.status \in {"Closed", "NonExist"} -> NativeRet(UDT_ERROR, 5004, sk)
      [] sk.status \notin {"Connected", "Broken", "Closed", "NonExist"} ->
            NativeRet(UDT_ERROR, 2002, sk)
      [] sk.status = "Broken" /\ sk.rcvq = 0 -> NativeRet(UDT_ERROR, 2001, sk)
      [] sk.status \in {"Connected", "Broken"} /\ ~(sk.status = "Broken" /\ sk.rcvq = 0)
            /\ len = 0 -> NativeRet(0, 0, sk)
      [] sk.status = "Connected" /\ len > 0 /\ sk.rcvq = 0 -> NativeRet(UDT_ERROR, 6002, sk)
      [] OTHER -> NativeRet(Min(len, sk.rcvq), 0,
                            [sk EXCEPT !.rcvq = sk.rcvq - Min(len, sk.rcvq)])

\* udt_send on a non-blocking socket with a buffer of len bytes; the send
\* buffer holds at most MaxBytes pending bytes.
udt_send(sk, len) ==
    CASE sk.status \in {"Closed", "NonExist"} -> NativeRet(UDT_ERROR, 5004, sk)
      [] sk.status = "Broken" -> NativeRet(UDT_ERROR, 2001, sk)
      [] sk.status \notin {"Connected", "Broken", "Closed", "NonExist"} ->
            NativeRet(UDT_ERROR, 2002, sk)
      [] sk.status = "Connected" /\ len = 0 -> NativeRet(0, 0, sk)
      [] sk.status = "Connected" /\ len > 0 /\ sk.snddata = MaxBytes ->
            NativeRet(UDT_ERROR, 6001, sk)
      [] OTHER -> NativeRet(Min(len, MaxBytes - sk.snddata), 0,
                            [sk EXCEPT !.snddata = sk.snddata + Min(len, MaxBytes - sk.snddata)])

\* udt_getsockopt(UDT_SNDDATA): the bytes still pending in the send buffer.
udt_getsockopt_snddata(sk) ==
    IF sk.status \in {"Closed", "NonExist"} THEN NativeRet(UDT_ERROR, 5004, sk)
    ELSE NativeRet(0, 0, sk)

\* udt_getsockstate
udt_getsockstate(sk) == sk.status

\* udt_close: the socket is closed and leaves every readiness set.
udt_close(sk) ==
    IF sk.status \in {"Closed", "NonExist"}
    THEN NativeRet(UDT_ERROR, 5004, [sk EXCEPT !.closes = Min(sk.closes + 1, 2)])
    ELSE NativeRet(0, 0, [sk EXCEPT !.status = "Closed", !.rcvq = 0, !.snddata = 0,
                                    !.backlog = 0, !.closes = Min(sk.closes + 1, 2)])

\* udt_accept on a non-blocking listener: ret is the id of the new socket.
udt_accept(sk, newId) ==
    CASE sk.status \in {"Closed", "NonExist"} -> NativeRet(UDT_INVALID_SOCK, 5004, sk)
      [] sk.status \notin {"Listening", "Closed", "NonExist"} ->
            NativeRet(UDT_INVALID_SOCK, 5006, sk)
      [] sk.status = "Listening" /\ sk.backlog = 0 -> NativeRet(UDT_INVALID_SOCK, 6002, sk)
      [] OTHER -> NativeRet(newId, 0, [sk EXCEPT !.backlog = sk.backlog - 1])

\* udt_setsockopt(UDT_RCVSYN / UDT_SNDSYN): fails when the native library
\* rejects the call (okNative = FALSE), else stores the flag.
udt_setsockopt_rcvsyn(sk, blocking, okNative) ==
    IF okNative THEN NativeRet(0, 0, [sk EXCEPT !.rcvsyn = blocking])
    ELSE NativeRet(UDT_ERROR, 5004, sk)

udt_setsockopt_sndsyn(sk, blocking, okNative) ==
    IF okNative THEN NativeRet(0, 0, [sk EXCEPT !.sndsyn = blocking])
    ELSE NativeRet(UDT_ERROR, 5004, sk)

\* ------------------------------------------------------------ socket.rs
\* The wrappers return the native value on success and get_error(placeholder)
\* when the native call returned its error sentinel.
UdtSocket_recv(n) == IF n.ret = UDT_ERROR THEN get_error(n.code, 0) ELSE Ok(n.ret)

UdtSocket_send(n) == IF n.ret = UDT_ERROR THEN get_error(n.code, 0) ELSE Ok(n.ret)

UdtSocket_get_snddata(n) ==
    IF n.ret = UDT_ERROR THEN get_error(n.code, 0) ELSE Ok(n.sk.snddata)

UdtSocket_close(n) == IF n.ret = UDT_ERROR THEN get_error(n.code, 0) ELSE Ok(0)

UdtSocket_accept(n) ==
    IF n.ret = UDT_INVALID_SOCK THEN get_error(n.code, n.ret) ELSE Ok(n.ret)

UdtSocket_set_rcvsyn(n) == IF n.ret = UDT_ERROR THEN get_error(n.code, 0) ELSE Ok(0)

UdtSocket_set_sndsyn(n) == IF n.ret = UDT_ERROR THEN get_error(n.code, 0) ELSE Ok(0)

UdtSocket_get_state(sk) == udt_getsockstate(sk)

\* --------------------------------------------------------- lib.rs: Epoll
HasIn(ev) == (ev % 2) = 1
HasOut(ev) == ((ev \div 4) % 2) = 1

EpollStruct(id, rd, wr) == [id |-> id, num_rd_sock |-> rd, num_wr_sock |-> wr]

\* udt_epoll_release(id) on the native sets ns / stray ids st
udt_epoll_release(id, ns, st) ==
    IF id \in 1 .. Len(ns) /\ ns[id].live
    THEN [nsets |-> [ns EXCEPT ![id].live = FALSE, ![id].reg = {},
                               ![id].log = Append(@, "release")],
          stray |-> st]
    ELSE [nsets |-> ns, stray |-> st \cup {id}]

\* impl Drop for Epoll: the native set of the dropped value is released.
Epoll_drop(ep, ns, st) == udt_epoll_release(ep.id, ns, st)

\* Epoll::new: okNative says whether udt_epoll_create succeeds.  On failure
\* the placeholder Epoll { id: 0 } goes to get_error, which returns it in Ok
\* when the error code reads as Success and drops it otherwise.
Epoll_new(okNative, ns, st) ==
    IF okNative
    THEN [res |-> Ok(Len(ns) + 1), ep |-> EpollStruct(Len(ns) + 1, 0, 0),
          nsets |-> Append(ns, [reg |-> {}, missed |-> {}, live |-> TRUE,
                                log |-> <<"create">>]),
          stray |-> st]
    ELSE LET g == get_error(3000, 0)
             d == Epoll_drop(EpollStruct(0, 0, 0), ns, st)
         IN  IF g.tag = "Ok"
             THEN [res |-> g, ep |-> EpollStruct(0, 0, 0), nsets |-> ns, stray |-> st]
             ELSE [res |-> g, ep |-> EpollStruct(0, 0, 0), nsets |-> d.nsets, stray |-> d.stray]

\* Epoll::add: okNative says whether udt_epoll_add_usock accepts the socket;
\* the counters move only when it does.
Epoll_add(ep, s, ev, okNative, ns) ==
    IF okNative /\ ep.id \in 1 .. Len(ns) /\ ns[ep.id].live
    THEN [res |-> Ok(0),
          ep |-> EpollStruct(ep.id,
                             IF HasIn(ev) THEN ep.num_rd_sock + 1 ELSE ep.num_rd_sock,
                             IF HasOut(ev) THEN ep.num_wr_sock + 1 ELSE ep.num_wr_sock),
          nsets |-> [ns EXCEPT ![ep.id].reg = @ \cup {<<s, ev>>},
                               ![ep.id].log = Append(@, "add")]]
    ELSE [res |-> get_error(5004, 0), ep |-> ep, nsets |-> ns]

\* what the native library reports as ready
ReadReady(sk) ==
    \/ sk.rcvq > 0
    \/ sk.status = "Broken"
    \/ sk.status = "Listening" /\ sk.backlog > 0

WriteReady(sk) ==
    \/ sk.status = "Connected" /\ sk.snddata < MaxBytes
    \/ sk.status = "Broken"

\* the sockets of native set e that are ready in their registered interest.
\* The Read event of a listener is raised when a connection arrives, in the
\* sets the listener is registered in at that moment: a set it is added to
\* afterwards does not report that connection.
ReadySet(e, ns, sk, In) ==
    {p[1] : p \in {q \in ns[e].reg : IF In THEN /\ HasIn(q[2]) /\ ReadReady(sk[q[1]])
                                                /\ q[1] \notin ns[e].missed
                                           ELSE HasOut(q[2]) /\ WriteReady(sk[q[1]])}}

\* udt_epoll_wait2 with timeout -1 returns once a registered socket is ready
\* and fails once the set is gone or holds no socket any more.
WaitCanReturn(e, ns, sk) ==
    /\ e \in 1 .. Len(ns) /\ ns[e].live
    /\ ReadySet(e, ns, sk, TRUE) \cup ReadySet(e, ns, sk, FALSE) # {}

WaitFails(e, ns) == ~(e \in 1 .. Len(ns) /\ ns[e].live) \/ ns[e].reg = {}

\* Epoll::wait: the result buffers are sized by the counters, so each ready
\* set is cut to at most that many entries (here: their number).
Epoll_wait(ep, ns, sk) ==
    IF WaitFails(ep.id, ns) THEN get_error(5003, 0)
    ELSE Ok(Min(ep.num_rd_sock, Cardinality(ReadySet(ep.id, ns, sk, TRUE)))
            + Min(ep.num_wr_sock, Cardinality(ReadySet(ep.id, ns, sk, FALSE))))

\* udt_getsockopt(UDT_EVENT): the events currently available on the socket
\* itself (8 is the error event of a broken connection); the call names no
\* readiness set.
udt_getsockopt_event(sk) ==
    IF sk.status \in {"Closed", "NonExist"} THEN NativeRet(UDT_ERROR, 5004, sk)
    ELSE IF sk.status = "Broken" THEN NativeRet(8, 0, sk)
    ELSE NativeRet((IF sk.rcvq > 0 THEN UDT_EPOLL_IN ELSE 0)
                   + (IF sk.status = "Connected" /\ sk.snddata < MaxBytes
                      THEN UDT_EPOLL_OUT ELSE 0), 0, sk)

\* UdtSocket::get_event
UdtSocket_get_event(n) == IF n.ret = UDT_ERROR THEN get_error(n.code, 0) ELSE Ok(n.ret)

\* udt_epoll_remove_usock(id, s): the socket leaves the set in every interest
udt_epoll_remove_usock(id, s, ns) ==
    [ns EXCEPT ![id].reg = {p \in @ : p[1] # s}, ![id].log = Append(@, "remove")]

\* Epoll::remove: the counters are decremented by the bits of the event
\* get_event returned.  usize arithmetic is modulo 2^64 and a counter is
\* written by its signed representative, so 0 - 1 is -1 (usize::MAX); with
\* overflow checks (wraps = FALSE) the subtraction from 0 panics instead.
Epoll_remove(ep, s, okNative, wraps, ns, sk) ==
    LET event == UdtSocket_get_event(udt_getsockopt_event(sk[s]))
        rd == IF HasIn(event.val) THEN ep.num_rd_sock - 1 ELSE ep.num_rd_sock
        panicRd == HasIn(event.val) /\ ep.num_rd_sock = 0 /\ ~wraps
        panicWr == HasOut(event.val) /\ ep.num_wr_sock = 0 /\ ~wraps
        wr == IF HasOut(event.val) THEN ep.num_wr_sock - 1 ELSE ep.num_wr_sock
        removed == udt_epoll_remove_usock(ep.id, s, ns)
    IN  IF event.tag = "Err"
        THEN [res |-> event, ep |-> ep, nsets |-> ns, panic |-> FALSE]
        ELSE IF ~(okNative /\ ep.id \in 1 .. Len(ns) /\ ns[ep.id].live)
        THEN [res |-> get_error(5003, 0), ep |-> ep, nsets |-> ns, panic |-> FALSE]
        ELSE IF panicRd
        THEN [res |-> None, ep |-> ep, nsets |-> removed, panic |-> TRUE]
        ELSE IF panicWr
        THEN [res |-> None, ep |-> EpollStruct(ep.id, rd, ep.num_wr_sock),
              nsets |-> removed, panic |-> TRUE]
        ELSE [res |-> Ok(0), ep |-> EpollStruct(ep.id, rd, wr),
              nsets |-> removed, panic |-> FALSE]

\* Epoll::release(self): udt_epoll_release is called on the id, and then the
\* value, which the function took by move, goes out of scope and is dropped.
Epoll_release(ep, ns, st) ==
    LET live == ep.id \in 1 .. Len(ns) /\ ns[ep.id].live
        r == udt_epoll_release(ep.id, ns, st)
        d == Epoll_drop(ep, r.nsets, r.stray)
    IN  [res |-> IF live THEN Ok(0) ELSE get_error(5003, 0),
         nsets |-> d.nsets, stray |-> d.stray]

\* ------------------------------------------ lib.rs: the would-block branch
WaitThread(t, ep) ==
    [task |-> t, kind |-> "wait", epoll |-> ep, timeout |-> WAIT_FOREVER,
     pc |-> "blocked", res |-> None, woke |-> FALSE]

SleepThread(t) ==
    [task |-> t, kind |-> "sleep", epoll |-> EpollStruct(0, 0, 0),
     timeout |-> CONNECT_DELAY_MS, pc |-> "blocked", res |-> None, woke |-> FALSE]

\* suspend, but a failed registration is not propagated: the wait is
\* launched on the empty set and the poll returns not-ready
suspend_ignoreAddError(t, s, ev, cOk, aOk) ==
    LET c == Epoll_new(cOk, nsets, stray)
        a == Epoll_add(c.ep, s, ev, aOk, c.nsets)
    IN  IF c.res.tag = "Err"
        THEN [res |-> c.res, new |-> c.res, add |-> None, spawned |-> FALSE, eid |-> 0,
              nsets |-> c.nsets, stray |-> c.stray, threads |-> threads]
        ELSE [res |-> PollPending, new |-> c.res, add |-> a.res, spawned |-> TRUE,
              eid |-> c.ep.id, nsets |-> a.nsets, stray |-> c.stray,
              threads |-> Append(threads, WaitThread(t, a.ep))]

\* suspend, but epoll.wait(-1) is called by the poll itself before the
\* thread is spawned
suspend_waitInline(t, s, ev, cOk, aOk) ==
    LET c == Epoll_new(cOk, nsets, stray)
        a == Epoll_add(c.ep, s, ev, aOk, c.nsets)
        d == Epoll_drop(a.ep, a.nsets, c.stray)
    IN  IF c.res.tag = "Err"
        THEN [res |-> c.res, new |-> c.res, add |-> None, spawned |-> FALSE, eid |-> 0,
              nsets |-> c.nsets, stray |-> c.stray, threads |-> threads]
        ELSE IF a.res.tag = "Err"
        THEN [res |-> a.res, new |-> c.res, add |-> a.res, spawned |-> FALSE, eid |-> c.ep.id,
              nsets |-> d.nsets, stray |-> d.stray, threads |-> threads]
        ELSE [res |-> PollPending, new |-> c.res, add |-> a.res, spawned |-> TRUE,
              eid |-> c.ep.id, nsets |-> a.nsets, stray |-> c.stray,
              threads |-> Append(threads,
                                 [WaitThread(t, a.ep) EXCEPT
                                     !.pc = "returned",
                                     !.res = Epoll_wait(a.ep, a.nsets, sock)])]

\* suspend, but the socket is registered under both interests
suspend_bothInterests(t, s, ev, cOk, aOk) ==
    LET c == Epoll_new(cOk, nsets, stray)
        a == Epoll_add(c.ep, s, UDT_EPOLL_IN + UDT_EPOLL_OUT, aOk, c.nsets)
        d == Epoll_drop(a.ep, a.nsets, c.stray)
    IN  IF c.res.tag = "Err"
        THEN [res |-> c.res, new |-> c.res, add |-> None, spawned |-> FALSE, eid |-> 0,
              nsets |-> c.nsets, stray |-> c.stray, threads |-> threads]
        ELSE IF a.res.tag = "Err"
        THEN [res |-> a.res, new |-> c.res, add |-> a.res, spawned |-> FALSE, eid |-> c.ep.id,
              nsets |-> d.nsets, stray |-> d.stray, threads |-> threads]
        ELSE [res |-> PollPending, new |-> c.res, add |-> a.res, spawned |-> TRUE,
              eid |-> c.ep.id, nsets |-> a.nsets, stray |-> c.stray,
              threads |-> Append(threads, WaitThread(t, a.ep))]

\* suspend, but the early return on a failed registration leaves the
\* multiplexer allocated
suspend_leakOnAddError(t, s, ev, cOk, aOk) ==
    LET c == Epoll_new(cOk, nsets, stray)
        a == Epoll_add(c.ep, s, ev, aOk, c.nsets)
    IN  IF c.res.tag = "Err"
        THEN [res |-> c.res, new |-> c.res, add |-> None, spawned |-> FALSE, eid |-> 0,
              nsets |-> c.nsets, stray |-> c.stray, threads |-> threads]
        ELSE IF a.res.tag = "Err"
        THEN [res |-> a.res, new |-> c.res, add |-> a.res, spawned |-> FALSE, eid |-> c.ep.id,
              nsets |-> a.nsets, stray |-> c.stray, threads |-> threads]
        ELSE [res |-> PollPending, new |-> c.res, add |-> a.res, spawned |-> TRUE,
              eid |-> c.ep.id, nsets |-> a.nsets, stray |-> c.stray,
              threads |-> Append(threads, WaitThread(t, a.ep))]

\* let mut epoll = Epoll::new()?; epoll.add(&self.socket, ev)?;
\* thread::spawn(...); Poll::Pending.  An early return by `?` drops the
\* epoll created so far.
suspend(t, s, ev, cOk, aOk) ==
    LET c == Epoll_new(cOk, nsets, stray)
        a == Epoll_add(c.ep, s, ev, aOk, c.nsets)
        d == Epoll_drop(a.ep, a.nsets, c.stray)
    IN  IF c.res.tag = "Err"
        THEN [res |-> c.res, new |-> c.res, add |-> None, spawned |-> FALSE, eid |-> 0,
              nsets |-> c.nsets, stray |-> c.stray, threads |-> threads]
        ELSE IF a.res.tag = "Err"
        THEN [res |-> a.res, new |-> c.res, add |-> a.res, spawned |-> FALSE, eid |-> c.ep.id,
              nsets |-> d.nsets, stray |-> d.stray, threads |-> threads]
        ELSE [res |-> PollPending, new |-> c.res, add |-> a.res, spawned |-> TRUE,
              eid |-> c.ep.id, nsets |-> a.nsets, stray |-> c.stray,
              threads |-> Append(threads, WaitThread(t, a.ep))]

\* the scheduler polls a future first, and again once its waker was invoked
CanPoll(t) ==
    /\ fut[t].polls < MaxPolls
    /\ fut[t].st = "new" \/ (fut[t].st = "pending" /\ woken[t])

\* the outcome o of one poll step of task t becomes the next state
Apply(t, o) ==
    /\ fut' = [fut EXCEPT ![t].st = IF o.res.tag = "Pending" THEN "pending" ELSE "ready",
                          ![t].res = o.res, ![t].polls = @ + 1]
    /\ woken' = [woken EXCEPT ![t] = FALSE]
    /\ lastPoll' = [lastPoll EXCEPT ![t] = o.obs]
    /\ seen' = [seen EXCEPT ![t] = IF o.status = "" THEN @ ELSE Append(@, o.status)]
    /\ sock' = o.sock
    /\ nsets' = o.nsets
    /\ stray' = o.stray
    /\ threads' = o.threads

\* a poll step that resolved or failed without touching the multiplexer
Direct(r, obs, sk) ==
    [res |-> r, obs |-> obs, status |-> "", sock |-> sk,
     nsets |-> nsets, stray |-> stray, threads |-> threads]

\* a poll step that went through the would-block branch w; toIo says whether
\* the function's error type is io::Error
Suspended(w, obs, sk, toIo) ==
    [res |-> IF w.res.tag = "Err" /\ toIo THEN IoError(w.res) ELSE w.res,
     obs |-> [obs EXCEPT !.new = w.new, !.add = w.add, !.spawned = w.spawned, !.eid = w.eid],
     status |-> "", sock |-> sk,
     nsets |-> w.nsets, stray |-> w.stray, threads |-> w.threads]

\* ------------------------------------------------- lib.rs: the poll steps
\* poll_read, but would-block resolves with 0 bytes instead of suspending
poll_read_step_noSuspend(t, len, cOk, aOk) ==
    LET s == fut[t].socket
        n == udt_recv(sock[s], len)
        r == UdtSocket_recv(n)
        sk1 == [sock EXCEPT ![s] = n.sk]
        obs == [NoObs EXCEPT !.attempt = r]
    IN  IF r.tag = "Ok" THEN Direct(Ok(r.val), obs, sk1)
        ELSE IF r.err = "AsyncRcv" THEN Direct(Ok(0), obs, sk1)
        ELSE Direct(IoError(r), obs, sk1)

\* poll_read, but a successful recv is reported as the buffer length
poll_read_step_bufLen(t, len, cOk, aOk) ==
    LET s == fut[t].socket
        n == udt_recv(sock[s], len)
        r == UdtSocket_recv(n)
        sk1 == [sock EXCEPT ![s] = n.sk]
        obs == [NoObs EXCEPT !.attempt = r]
    IN  IF r.tag = "Ok" THEN Direct(Ok(len), obs, sk1)
        ELSE IF r.err = "AsyncRcv"
        THEN Suspended(suspend(t, s, UDT_EPOLL_IN, cOk, aOk), obs, sk1, TRUE)
        ELSE Direct(IoError(r), obs, sk1)

\* poll_read, but a would-block recv is returned to the caller like any
\* other error
poll_read_step_surfaceWouldBlock(t, len, cOk, aOk) ==
    LET s == fut[t].socket
        n == udt_recv(sock[s], len)
        r == UdtSocket_recv(n)
        sk1 == [sock EXCEPT ![s] = n.sk]
        obs == [NoObs EXCEPT !.attempt = r]
    IN  IF r.tag = "Ok" THEN Direct(Ok(r.val), obs, sk1)
        ELSE Direct(IoError(r), obs, sk1)

\* AsyncRead::poll_read with a buffer of len bytes
poll_read_step(t, len, cOk, aOk) ==
    LET s == fut[t].socket
        n == udt_recv(sock[s], len)
        r == UdtSocket_recv(n)
        sk1 == [sock EXCEPT ![s] = n.sk]
        obs == [NoObs EXCEPT !.attempt = r]
    IN  IF r.tag = "Ok" THEN Direct(Ok(r.val), obs, sk1)
        ELSE IF r.err = "AsyncRcv"
        THEN Suspended(suspend(t, s, UDT_EPOLL_IN, cOk, aOk), obs, sk1, TRUE)
        ELSE Direct(IoError(r), obs, sk1)

\* poll_write, but would-block suspends without asking for the pending bytes
poll_write_step_noQuery(t, len, drained, cOk, aOk) ==
    LET s == fut[t].socket
        n == udt_send(sock[s], len)
        r == UdtSocket_send(n)
        sk1 == [sock EXCEPT ![s] = n.sk]
        obs == [NoObs EXCEPT !.attempt = r]
    IN  IF r.tag = "Ok" THEN Direct(Ok(r.val), obs, sk1)
        ELSE IF r.err = "AsyncSnd"
        THEN Suspended(suspend(t, s, UDT_EPOLL_OUT, cOk, aOk), obs, sk1, TRUE)
        ELSE Direct(IoError(r), obs, sk1)

\* AsyncWrite::poll_write with a buffer of len bytes; drained bytes leave the
\* send buffer between the send and the pending-byte query
poll_write_step(t, len, drained, cOk, aOk) ==
    LET s == fut[t].socket
        n == udt_send(sock[s], len)
        r == UdtSocket_send(n)
        g == udt_getsockopt_snddata([n.sk EXCEPT !.snddata = @ - drained])
        b == UdtSocket_get_snddata(g)
        sk1 == [sock EXCEPT ![s] = n.sk]
        sk2 == [sock EXCEPT ![s] = g.sk]
        obs == [NoObs EXCEPT !.attempt = r]
        obs2 == [obs EXCEPT !.snd = b]
    IN  IF r.tag = "Ok" THEN Direct(Ok(r.val), obs, sk1)
        ELSE IF r.err = "AsyncSnd"
        THEN IF b.tag = "Ok"
             THEN IF b.val = 0 THEN Direct(Ok(0), obs2, sk2)
                  ELSE Suspended(suspend(t, s, UDT_EPOLL_OUT, cOk, aOk), obs2, sk2, TRUE)
             ELSE Direct(IoError(b), obs2, sk2)
        ELSE Direct(IoError(r), obs, sk1)

\* poll_flush, but one pending byte already counts as flushed
poll_flush_step_offByOne(t, cOk, aOk) ==
    LET s == fut[t].socket
        g == udt_getsockopt_snddata(sock[s])
        b == UdtSocket_get_snddata(g)
        obs == [NoObs EXCEPT !.snd = b]
    IN  IF b.tag = "Ok"
        THEN IF b.val <= 1 THEN Direct(Ok(0), obs, sock)
             ELSE Suspended(suspend(t, s, UDT_EPOLL_OUT, cOk, aOk), obs, sock, TRUE)
        ELSE Direct(IoError(b), obs, sock)

\* AsyncWrite::poll_flush
poll_flush_step(t, cOk, aOk) ==
    LET s == fut[t].socket
        g == udt_getsockopt_snddata(sock[s])
        b == UdtSocket_get_snddata(g)
        obs == [NoObs EXCEPT !.snd = b]
    IN  IF b.tag = "Ok"
        THEN IF b.val = 0 THEN Direct(Ok(0), obs, sock)
             ELSE Suspended(suspend(t, s, UDT_EPOLL_OUT, cOk, aOk), obs, sock, TRUE)
        ELSE Direct(IoError(b), obs, sock)

\* a closed socket leaves every native readiness set
RemoveFromSets(ns, s) ==
    [i \in DOMAIN ns |-> [ns[i] EXCEPT !.reg = {q \in @ : q[1] # s},
                                       !.missed = @ \ {s}]]

\* poll_close, but the socket is closed whatever the pending-byte count is
poll_close_step_closeFirst(t, cOk, aOk) ==
    LET s == fut[t].socket
        g == udt_getsockopt_snddata(sock[s])
        b == UdtSocket_get_snddata(g)
        c == udt_close(sock[s])
        r == UdtSocket_close(c)
        obs == [NoObs EXCEPT !.snd = b]
    IN  IF b.tag = "Ok"
        THEN [Direct(IF r.tag = "Ok" THEN Ok(0) ELSE IoError(r),
                     [obs EXCEPT !.close = r], [sock EXCEPT ![s] = c.sk])
                EXCEPT !.nsets = RemoveFromSets(nsets, s)]
        ELSE Direct(IoError(b), obs, sock)

\* poll_close, but the suspension registers the socket for Read interest
poll_close_step_readInterest(t, cOk, aOk) ==
    LET s == fut[t].socket
        g == udt_getsockopt_snddata(sock[s])
        b == UdtSocket_get_snddata(g)
        c == udt_close(sock[s])
        r == UdtSocket_close(c)
        obs == [NoObs EXCEPT !.snd = b]
    IN  IF b.tag = "Ok"
        THEN IF b.val = 0
             THEN [Direct(IF r.tag = "Ok" THEN Ok(0) ELSE IoError(r),
                          [obs EXCEPT !.close = r], [sock EXCEPT ![s] = c.sk])
                     EXCEPT !.nsets = RemoveFromSets(nsets, s)]
             ELSE Suspended(suspend(t, s, UDT_EPOLL_IN, cOk, aOk), obs, sock, TRUE)
        ELSE Direct(IoError(b), obs, sock)

\* AsyncWrite::poll_close
poll_close_step(t, cOk, aOk) ==
    LET s == fut[t].socket
        g == udt_getsockopt_snddata(sock[s])
        b == UdtSocket_get_snddata(g)
        c == udt_close(sock[s])
        r == UdtSocket_close(c)
        obs == [NoObs EXCEPT !.snd = b]
    IN  IF b.tag = "Ok"
        THEN IF b.val = 0
             THEN [Direct(IF r.tag = "Ok" THEN Ok(0) ELSE IoError(r),
                          [obs EXCEPT !.close = r], [sock EXCEPT ![s] = c.sk])
                     EXCEPT !.nsets = RemoveFromSets(nsets, s)]
             ELSE Suspended(suspend(t, s, UDT_EPOLL_OUT, cOk, aOk), obs, sock, TRUE)
        ELSE Direct(IoError(b), obs, sock)

\* AcceptFuture::poll, but a failed set_sndsyn is not looked at
AcceptFuture_poll_ignoreSndsyn(t, rOk, sOk, cOk, aOk) ==
    LET s == fut[t].socket
        n == udt_accept(sock[s], AcceptedId(t))
        r == UdtSocket_accept(n)
        fresh == InitSock("Connected", sock[s].rcvsyn, sock[s].sndsyn)
        nr == udt_setsockopt_rcvsyn(fresh, FALSE, rOk)
        r_b == UdtSocket_set_rcvsyn(nr)
        nsnd == udt_setsockopt_sndsyn(nr.sk, FALSE, sOk)
        s_b == UdtSocket_set_sndsyn(nsnd)
        sk1 == [sock EXCEPT ![s] = n.sk]
        sk2 == [sk1 EXCEPT ![r.val] = nsnd.sk]
        obs == [NoObs EXCEPT !.attempt = r]
        obs2 == [obs EXCEPT !.cfg_r = r_b, !.cfg_s = s_b]
    IN  IF r.tag = "Ok"
        THEN IF r_b.tag = "Err" THEN Direct(r_b, obs2, sk2)
             ELSE Direct(Ok(r.val), obs2, sk2)
        ELSE IF r.err = "AsyncRcv"
        THEN Suspended(suspend(t, s, UDT_EPOLL_IN, cOk, aOk), obs, sk1, FALSE)
        ELSE Direct(r, obs, sk1)

\* AcceptFuture::poll; rOk / sOk say whether the native library accepts
\* set_rcvsyn(false) / set_sndsyn(false) on the new socket, which inherits
\* the listener's flags
AcceptFuture_poll(t, rOk, sOk, cOk, aOk) ==
    LET s == fut[t].socket
        n == udt_accept(sock[s], AcceptedId(t))
        r == UdtSocket_accept(n)
        fresh == InitSock("Connected", sock[s].rcvsyn, sock[s].sndsyn)
        nr == udt_setsockopt_rcvsyn(fresh, FALSE, rOk)
        r_b == UdtSocket_set_rcvsyn(nr)
        nsnd == udt_setsockopt_sndsyn(nr.sk, FALSE, sOk)
        s_b == UdtSocket_set_sndsyn(nsnd)
        sk1 == [sock EXCEPT ![s] = n.sk]
        sk2 == [sk1 EXCEPT ![r.val] = nsnd.sk]
        obs == [NoObs EXCEPT !.attempt = r]
        obs2 == [obs EXCEPT !.cfg_r = r_b, !.cfg_s = s_b]
    IN  IF r.tag = "Ok"
        THEN IF r_b.tag = "Err" THEN Direct(r_b, obs2, sk2)
             ELSE IF s_b.tag = "Err" THEN Direct(s_b, obs2, sk2)
             ELSE Direct(Ok(r.val), obs2, sk2)
        ELSE IF r.err = "AsyncRcv"
        THEN Suspended(suspend(t, s, UDT_EPOLL_IN, cOk, aOk), obs, sk1, FALSE)
        ELSE Direct(r, obs, sk1)

\* the error ConnectFuture::poll builds for a status it does not wait on
ConnectError(status) ==
    CASE status = "Broken" -> Err("ConnLost", "connection broken")
      [] status = "Init" -> Err("UnboundSock", "socket not bound")
      [] status = "Opened" -> Err("InvOp", "already connected")
      [] status = "Listening" -> Err("InvOp", "socket is listening")
      [] status = "Closing" -> Err("InvSock", "socket is being closed")
      [] status = "Closed" -> Err("InvSock", "socket already closed")
      [] status = "NonExist" -> Err("InvSock", "socket do not exist")

\* ConnectFuture::poll, but a socket that is still connecting is reported
\* as connected
ConnectFuture_poll_early(t) ==
    LET s == fut[t].socket
        status == UdtSocket_get_state(sock[s])
        base == [Direct(None, NoObs, sock) EXCEPT !.status = status]
    IN  CASE status \in {"Connecting", "Connected"} -> [base EXCEPT !.res = Ok(s)]
          [] OTHER -> [base EXCEPT !.res = ConnectError(status)]

\* ConnectFuture::poll, but a broken connection is waited on like a
\* connecting one
ConnectFuture_poll_retryBroken(t) ==
    LET s == fut[t].socket
        status == UdtSocket_get_state(sock[s])
        base == [Direct(None, NoObs, sock) EXCEPT !.status = status]
    IN  CASE status \in {"Connecting", "Broken"} ->
               [base EXCEPT !.res = PollPending, !.obs.spawned = TRUE,
                            !.threads = Append(threads, SleepThread(t))]
          [] status = "Connected" -> [base EXCEPT !.res = Ok(s)]
          [] OTHER -> [base EXCEPT !.res = ConnectError(status)]

\* ConnectFuture::poll, but a connecting socket returns not-ready without
\* scheduling the timer
ConnectFuture_poll_noTimer(t) ==
    LET s == fut[t].socket
        status == UdtSocket_get_state(sock[s])
        base == [Direct(None, NoObs, sock) EXCEPT !.status = status]
    IN  CASE status = "Connecting" -> [base EXCEPT !.res = PollPending]
          [] status = "Connected" -> [base EXCEPT !.res = Ok(s)]
          [] OTHER -> [base EXCEPT !.res = ConnectError(status)]

\* ConnectFuture::poll
ConnectFuture_poll(t) ==
    LET s == fut[t].socket
        status == UdtSocket_get_state(sock[s])
        base == [Direct(None, NoObs, sock) EXCEPT !.status = status]
    IN  CASE status = "Connecting" ->
               [base EXCEPT !.res = PollPending, !.obs.spawned = TRUE,
                            !.threads = Append(threads, SleepThread(t))]
          [] status = "Connected" -> [base EXCEPT !.res = Ok(s)]
          [] OTHER -> [base EXCEPT !.res = ConnectError(status)]

\* ------------------------------------------------------ the poll actions
\* The poll step o of task t with the environment acting between the
\* non-blocking attempt (or the pending-byte query) and epoll.add: when ready,
\* the socket becomes ready in that gap.  A connection arrives at the
\* listener, a byte arrives at the reader, or a pending byte is acknowledged
\* to the writer.  The native add reports data already queued and room
\* already there on a connected socket; the connection that reached the
\* listener before the add raised its event in the sets of that moment.
InGap(t, o, ready) ==
    LET s == fut[t].socket
        sk == o.sock[s]
    IN  IF ~(ready /\ o.obs.spawned) THEN o
        ELSE CASE fut[t].op = "accept" ->
                     [o EXCEPT !.obs.gap = TRUE, !.sock[s].backlog = sk.backlog + 1,
                               !.nsets[o.obs.eid].missed = {s}]
               [] fut[t].op = "read" ->
                     [o EXCEPT !.obs.gap = TRUE, !.sock[s].rcvq = sk.rcvq + 1]
               [] OTHER ->
                     [o EXCEPT !.obs.gap = TRUE, !.sock[s].snddata = sk.snddata - 1]

PollRead(t) ==
    /\ CanPoll(t) /\ fut[t].op = "read"
    /\ \E len \in 0 .. MaxBuf, cOk \in BOOLEAN, aOk \in BOOLEAN, ready \in BOOLEAN :
          Apply(t, InGap(t, poll_read_step(t, len, cOk, aOk), ready))

PollWrite(t) ==
    /\ CanPoll(t) /\ fut[t].op = "write"
    /\ \E len \in 0 .. MaxBuf, drained \in 0 .. MaxBytes, cOk \in BOOLEAN, aOk \in BOOLEAN :
          /\ drained <= sock[fut[t].socket].snddata
          /\ \E ready \in BOOLEAN :
                Apply(t, InGap(t, poll_write_step(t, len, drained, cOk, aOk), ready))

PollFlush(t) ==
    /\ CanPoll(t) /\ fut[t].op = "flush"
    /\ \E cOk \in BOOLEAN, aOk \in BOOLEAN, ready \in BOOLEAN :
          Apply(t, InGap(t, poll_flush_step(t, cOk, aOk), ready))

PollClose(t) ==
    /\ CanPoll(t) /\ fut[t].op = "close"
    /\ \E cOk \in BOOLEAN, aOk \in BOOLEAN, ready \in BOOLEAN :
          Apply(t, InGap(t, poll_close_step(t, cOk, aOk), ready))

PollAccept(t) ==
    /\ CanPoll(t) /\ fut[t].op = "accept"
    /\ \E rOk \in BOOLEAN, sOk \in BOOLEAN, cOk \in BOOLEAN, aOk \in BOOLEAN,
          ready \in BOOLEAN :
          Apply(t, InGap(t, AcceptFuture_poll(t, rOk, sOk, cOk, aOk), ready))

PollConnect(t) ==
    /\ CanPoll(t) /\ fut[t].op = "connect"
    /\ Apply(t, ConnectFuture_poll(t))

\* ------------------------------------------- lib.rs: background threads
\* the closure step, but the waker is never invoked
WakesOn_never(r) == FALSE

\* the closure step after epoll.wait(-1) returned r: `if let Ok(_) = r
\* { waker.wake(); }`
WakesOn(r) == r.tag = "Ok"

\* epoll.wait(-1) returns in the thread spawned by a suspension
WaitReturn(i) ==
    /\ threads[i].kind = "wait" /\ threads[i].pc = "blocked"
    /\ WaitCanReturn(threads[i].epoll.id, nsets, sock) \/ WaitFails(threads[i].epoll.id, nsets)
    /\ threads' = [threads EXCEPT ![i].pc = "returned",
                                  ![i].res = Epoll_wait(threads[i].epoll, nsets, sock)]
    /\ UNCHANGED <<fut, woken, lastPoll, seen, sock, nsets, stray>>

\* waker.wake()
ThreadWake(i) ==
    /\ threads[i].kind = "wait" /\ threads[i].pc = "returned"
    /\ WakesOn(threads[i].res)
    /\ woken' = [woken EXCEPT ![threads[i].task] = TRUE]
    /\ threads' = [threads EXCEPT ![i].pc = "woke", ![i].woke = TRUE]
    /\ UNCHANGED <<fut, lastPoll, seen, sock, nsets, stray>>

\* the closure ends: the Epoll it owns is dropped
ThreadExit(i) ==
    /\ threads[i].kind = "wait"
    /\ \/ threads[i].pc = "woke"
       \/ threads[i].pc = "returned" /\ ~WakesOn(threads[i].res)
    /\ LET d == Epoll_drop(threads[i].epoll, nsets, stray)
       IN  nsets' = d.nsets /\ stray' = d.stray
    /\ threads' = [threads EXCEPT ![i].pc = "done"]
    /\ UNCHANGED <<fut, woken, lastPoll, seen, sock>>

\* thread::sleep(500 ms); waker.wake() in the thread ConnectFuture spawned
SleepDone(i) ==
    /\ threads[i].kind = "sleep" /\ threads[i].pc = "blocked"
    /\ woken' = [woken EXCEPT ![threads[i].task] = TRUE]
    /\ threads' = [threads EXCEPT ![i].pc = "done", ![i].woke = TRUE]
    /\ UNCHANGED <<fut, lastPoll, seen, sock, nsets, stray>>

\* DropOwner, but dropping the owner also ends the background waits of its
\* future and releases their sets
DropOwner_cancelsWait(t) ==
    /\ fut[t].op # "connect"
    /\ fut[t].owner = "alive"
    /\ fut[t].st \in {"pending", "ready"}
    /\ LET s == fut[t].socket
           c == udt_close(sock[s])
           ns == RemoveFromSets(nsets, s)
           mine(id) == \E i \in DOMAIN threads :
                          /\ threads[i].task = t /\ threads[i].kind = "wait"
                          /\ threads[i].pc = "blocked" /\ threads[i].epoll.id = id
       IN  /\ sock' = [sock EXCEPT ![s] = c.sk]
           /\ nsets' = [id \in DOMAIN ns |->
                           IF mine(id)
                           THEN [ns[id] EXCEPT !.live = FALSE, !.log = Append(@, "release")]
                           ELSE ns[id]]
    /\ threads' = [i \in DOMAIN threads |->
                      IF threads[i].task = t /\ threads[i].pc = "blocked"
                      THEN [threads[i] EXCEPT !.pc = "done"] ELSE threads[i]]
    /\ fut' = [fut EXCEPT ![t].owner = "dropped",
                          ![t].st = IF fut[t].op = "accept" THEN @ ELSE "dropped"]
    /\ UNCHANGED <<woken, lastPoll, seen, stray>>

\* impl Drop for UdtAsyncStream / UdtAsyncListener: the owner of the socket
\* is dropped and closes it, ignoring the result.  A stream takes its
\* suspended or resolved future with it; an AcceptFuture holds its own copy
\* of the listener's socket and outlives the listener.
DropOwner(t) ==
    /\ fut[t].op # "connect"
    /\ fut[t].owner = "alive"
    /\ fut[t].st \in {"pending", "ready"}
    /\ LET s == fut[t].socket
           c == udt_close(sock[s])
       IN  /\ sock' = [sock EXCEPT ![s] = c.sk]
           /\ nsets' = RemoveFromSets(nsets, s)
    /\ fut' = [fut EXCEPT ![t].owner = "dropped",
                          ![t].st = IF fut[t].op = "accept" THEN @ ELSE "dropped"]
    /\ UNCHANGED <<woken, lastPoll, seen, stray, threads>>

\* the holder of a suspended future drops it (the futures have no Drop
\* impl): nothing is closed, released or cancelled
DropFuture(t) ==
    /\ fut[t].st = "pending"
    /\ fut' = [fut EXCEPT ![t].st = "dropped"]
    /\ UNCHANGED <<woken, lastPoll, seen, sock, nsets, stray, threads>>

\* ------------------------------------------------------- the environment
\* the peer sends a byte
EnvData(s) ==
    /\ sock[s].status = "Connected" /\ sock[s].rcvq < MaxBytes
    /\ sock' = [sock EXCEPT ![s].rcvq = @ + 1]
    /\ UNCHANGED <<fut, woken, lastPoll, seen, nsets, stray, threads>>

\* the peer acknowledges a pending byte
EnvAck(s) ==
    /\ sock[s].status = "Connected" /\ sock[s].snddata > 0
    /\ sock' = [sock EXCEPT ![s].snddata = @ - 1]
    /\ UNCHANGED <<fut, woken, lastPoll, seen, nsets, stray, threads>>

\* a peer connects to a listener: every set the listener is in gets the event
EnvIncoming(s) ==
    /\ sock[s].status = "Listening" /\ sock[s].backlog = 0
    /\ sock' = [sock EXCEPT ![s].backlog = 1]
    /\ nsets' = [e \in DOMAIN nsets |-> [nsets[e] EXCEPT !.missed = @ \ {s}]]
    /\ UNCHANGED <<fut, woken, lastPoll, seen, stray, threads>>

\* the connection is established, or it breaks
EnvStatus(s) ==
    /\ \/ sock[s].status = "Connecting" /\ sock' = [sock EXCEPT ![s].status = "Connected"]
       \/ sock[s].status \in {"Connecting", "Connected"}
             /\ sock' = [sock EXCEPT ![s].status = "Broken"]
    /\ UNCHANGED <<fut, woken, lastPoll, seen, nsets, stray, threads>>

Next ==
    \/ \E t \in Tasks : PollRead(t)
    \/ \E t \in Tasks : PollWrite(t)
    \/ \E t \in Tasks : PollFlush(t)
    \/ \E t \in Tasks : PollClose(t)
    \/ \E t \in Tasks : PollAccept(t)
    \/ \E t \in Tasks : PollConnect(t)
    \/ \E i \in DOMAIN threads : WaitReturn(i)
    \/ \E i \in DOMAIN threads : ThreadWake(i)
    \/ \E i \in DOMAIN threads : ThreadExit(i)
    \/ \E i \in DOMAIN threads : SleepDone(i)
    \/ \E t \in Tasks : DropOwner(t)
    \/ \E t \in Tasks : DropFuture(t)
    \/ \E s \in SockIds : EnvData(s)
    \/ \E s \in SockIds : EnvAck(s)
    \/ \E s \in SockIds : EnvIncoming(s)
    \/ \E s \in SockIds : EnvStatus(s)

Spec == Init /\ [][Next]_vars

\* The spawned timer thread runs to its end (it sleeps 500 ms and calls
\* wake), and the scheduler polls a task again once its waker was invoked.
FairSpec ==
    /\ Spec
    /\ WF_vars(\E i \in DOMAIN threads : SleepDone(i))
    /\ WF_vars(\E t \in Tasks : PollConnect(t))

\* The native wait returns once it can, and the closure of the spawned
\* thread goes on to its wake.
FairWake ==
    /\ Spec
    /\ WF_vars(\E i \in DOMAIN threads : WaitReturn(i))
    /\ WF_vars(\E i \in DOMAIN threads : ThreadWake(i))

\* ------------------------------------- lib.rs: the Epoll used on its own
\* a caller that owns an Epoll and calls its methods one after the other
DirectHolder(ep) ==
    [task |-> 0, kind |-> "direct", epoll |-> ep, timeout |-> 0,
     pc |-> "holding", res |-> None, woke |-> FALSE]

\* the sockets the caller registers
DirectSocks == {1, 2}

\* no future: sockets that are connected (with room in the send buffer or
\* none) or already closed, and no Epoll yet
InitEpoll ==
    /\ fut = <<>> /\ woken = <<>> /\ lastPoll = <<>> /\ seen = <<>>
    /\ \E sts \in [DirectSocks -> {"Connected", "Closed"}],
          p \in [DirectSocks -> {0, MaxBytes}] :
          /\ \A s \in DirectSocks : sts[s] = "Closed" => p[s] = 0
          /\ sock = [s \in DirectSocks |->
                        [InitSock(sts[s], FALSE, FALSE) EXCEPT !.snddata = p[s]]]
    /\ nsets = <<>>
    /\ stray = {}
    /\ threads = <<>>

Holding(i) == threads[i].kind = "direct" /\ threads[i].pc = "holding"

\* further add / remove calls are made on the Epoll of holder i
MoreCalls(i) == Holding(i) /\ Len(nsets[threads[i].epoll.id].log) <= MaxCalls

\* let mut epoll = Epoll::new()?
DirectNew ==
    /\ threads = <<>>
    /\ \E okNative \in BOOLEAN :
          LET c == Epoll_new(okNative, nsets, stray)
          IN  /\ nsets' = c.nsets /\ stray' = c.stray
              /\ threads' = IF c.res.tag = "Ok"
                            THEN Append(threads, DirectHolder(c.ep)) ELSE threads
    /\ UNCHANGED <<fut, woken, lastPoll, seen, sock>>

\* epoll.add(&socket, &event); the native library accepts only a socket that
\* exists
DirectAdd(i) ==
    /\ MoreCalls(i)
    /\ \E s \in SockIds, okNative \in BOOLEAN,
          ev \in {UDT_EPOLL_IN, UDT_EPOLL_OUT, UDT_EPOLL_IN + UDT_EPOLL_OUT} :
          /\ okNative => sock[s].status \notin {"Closed", "NonExist"}
          /\ LET a == Epoll_add(threads[i].epoll, s, ev, okNative, nsets)
             IN  /\ nsets' = a.nsets
                 /\ threads' = [threads EXCEPT ![i].epoll = a.ep, ![i].res = a.res]
    /\ UNCHANGED <<fut, woken, lastPoll, seen, sock, stray>>

\* epoll.remove(&socket); a panic unwinds through the owner of the Epoll,
\* which is dropped
DirectRemove(i) ==
    /\ MoreCalls(i)
    /\ \E s \in SockIds, okNative \in BOOLEAN, wraps \in BOOLEAN :
          LET r == Epoll_remove(threads[i].epoll, s, okNative, wraps, nsets, sock)
              d == Epoll_drop(r.ep, r.nsets, stray)
          IN  IF r.panic
              THEN /\ nsets' = d.nsets /\ stray' = d.stray
                   /\ threads' = [threads EXCEPT ![i].epoll = r.ep, ![i].res = r.res,
                                                 ![i].pc = "panicked"]
              ELSE /\ nsets' = r.nsets /\ stray' = stray
                   /\ threads' = [threads EXCEPT ![i].epoll = r.ep, ![i].res = r.res]
    /\ UNCHANGED <<fut, woken, lastPoll, seen, sock>>

\* epoll.release()
DirectRelease(i) ==
    /\ Holding(i)
    /\ LET r == Epoll_release(threads[i].epoll, nsets, stray)
       IN  /\ nsets' = r.nsets /\ stray' = r.stray
           /\ threads' = [threads EXCEPT ![i].res = r.res, ![i].pc = "released"]
    /\ UNCHANGED <<fut, woken, lastPoll, seen, sock>>

\* the Epoll goes out of scope
DirectDrop(i) ==
    /\ Holding(i)
    /\ LET d == Epoll_drop(threads[i].epoll, nsets, stray)
       IN  /\ nsets' = d.nsets /\ stray' = d.stray
    /\ threads' = [threads EXCEPT ![i].pc = "dropped"]
    /\ UNCHANGED <<fut, woken, lastPoll, seen, sock>>

NextEpoll ==
    \/ DirectNew
    \/ \E i \in DOMAIN threads : DirectAdd(i)
    \/ \E i \in DOMAIN threads : DirectRemove(i)
    \/ \E i \in DOMAIN threads : DirectRelease(i)
    \/ \E i \in DOMAIN threads : DirectDrop(i)
    \/ \E s \in SockIds : EnvData(s)
    \/ \E s \in SockIds : EnvAck(s)

SpecEpoll == InitEpoll /\ [][NextEpoll]_vars

\* ------------------- lib.rs tests: a listener task joined with a connector
\* block_on(future::join(listen_task, connect_task)): task 1 accepts, writes
\* the message with write_all and closes; task 2 connects, reads the message
\* with read_exact and closes.  Both children of the join share the waker of
\* the join, woken[0]; each poll of the join polls child 1 and then child 2,
\* and woken[t] says that child t has its poll of this round still to come.
PairTasks == {1, 2}

\* the message fits the send buffer (the tests write 7 bytes)
MsgLen == MaxBytes

\* the future a task awaits: left is the part of the message still to write
\* or read, hist the futures the task has awaited so far with their results,
\* also the other sockets the task owns
PairFuture(op, s, left, hist, also) ==
    [op |-> op, socket |-> s, st |-> "new", res |-> None, polls |-> 0,
     owner |-> "alive", left |-> left, hist |-> hist, also |-> also]

\* the listener listens on socket 1 and awaits accept; the connector awaits
\* the connect of socket 2; both sockets are non-blocking
InitPair ==
    /\ fut = [t \in PairTasks |->
                 IF t = 1 THEN PairFuture("accept", 1, 0, <<>>, {1})
                 ELSE PairFuture("connect", 2, 0, <<>>, {})]
    /\ woken = [k \in {0} \cup PairTasks |-> FALSE]
    /\ lastPoll = [t \in PairTasks |-> NoObs]
    /\ seen = [t \in PairTasks |-> <<>>]
    /\ sock = [s \in 1 .. (2 * Cardinality(PairTasks)) |->
                  CASE s = 1 -> InitSock("Listening", FALSE, FALSE)
                    [] s = 2 -> InitSock("Connecting", FALSE, FALSE)
                    [] OTHER -> InitSock("NonExist", TRUE, TRUE)]
    /\ nsets = <<>>
    /\ stray = {}
    /\ threads = <<>>

\* connect_task starts (rx.recv() returns) once listen_task has reached its
\* first await
Started(t) == t = 1 \/ fut[1].polls > 0 \/ fut[1].hist # <<>>

\* child t has work to do in the current poll of the join
Runnable(t) ==
    \/ fut[t].st \in {"new", "ready"}
    \/ fut[t].st = "pending" /\ woken[t]

\* it is the turn of child t: the children before it have returned
Turn(t) == \A u \in Tasks : u < t => ~Runnable(u)

\* the join polls the future its child t awaits; the native library grants
\* every multiplexer and option call
PairPoll(t) ==
    /\ CanPoll(t) /\ Turn(t) /\ Len(threads) < MaxThreads
    /\ CASE fut[t].op = "accept" -> Apply(t, AcceptFuture_poll(t, TRUE, TRUE, TRUE, TRUE))
         [] fut[t].op = "connect" -> Apply(t, ConnectFuture_poll(t))
         [] fut[t].op = "write" -> Apply(t, poll_write_step(t, fut[t].left, 0, TRUE, TRUE))
         [] fut[t].op = "read" -> Apply(t, poll_read_step(t, fut[t].left, TRUE, TRUE))
         [] fut[t].op = "close" -> Apply(t, poll_close_step(t, TRUE, TRUE))

\* the sockets the task owns are dropped at the end of its async block: each
\* Drop closes its socket
CloseAll(S, sk) ==
    [s \in DOMAIN sk |-> IF s \in S THEN udt_close(sk[s]).sk ELSE sk[s]]

RECURSIVE RemoveAllFromSets(_, _)
RemoveAllFromSets(ns, S) ==
    IF S = {} THEN ns
    ELSE LET s == CHOOSE x \in S : TRUE
         IN  RemoveAllFromSets(RemoveFromSets(ns, s), S \ {s})

\* the async block of task t goes on after the future it awaited resolved:
\* expect() / assert!() end the task on an error, write_all and read_exact
\* repeat poll_write / poll_read on the rest of the buffer and fail on 0
PairAdvance(t) ==
    /\ fut[t].st = "ready" /\ Turn(t)
    /\ LET f == fut[t]
           h == Append(f.hist, <<f.op, f.res>>)
           rest == f.left - f.res.val
           owned == f.also \cup {f.socket}
       IN  CASE f.res.tag = "Err" ->
                    /\ fut' = [fut EXCEPT ![t].st = "failed", ![t].hist = h]
                    /\ UNCHANGED <<sock, nsets>>
             [] f.res.tag = "Ok" /\ f.op = "accept" ->
                    /\ fut' = [fut EXCEPT ![t] = PairFuture("write", f.res.val, MsgLen, h, f.also)]
                    /\ UNCHANGED <<sock, nsets>>
             [] f.res.tag = "Ok" /\ f.op = "connect" ->
                    /\ fut' = [fut EXCEPT ![t] = PairFuture("read", f.res.val, MsgLen, h, f.also)]
                    /\ UNCHANGED <<sock, nsets>>
             [] f.res.tag = "Ok" /\ f.op \in {"write", "read"} /\ f.res.val = 0 ->
                    /\ fut' = [fut EXCEPT ![t].st = "failed", ![t].hist = h]
                    /\ UNCHANGED <<sock, nsets>>
             [] f.res.tag = "Ok" /\ f.op \in {"write", "read"} /\ f.res.val > 0 ->
                    /\ fut' = [fut EXCEPT ![t] =
                                  IF rest > 0 THEN PairFuture(f.op, f.socket, rest, h, f.also)
                                  ELSE PairFuture("close", f.socket, 0, h, f.also)]
                    /\ UNCHANGED <<sock, nsets>>
             [] f.res.tag = "Ok" /\ f.op = "close" ->
                    /\ fut' = [fut EXCEPT ![t].st = "done", ![t].hist = h,
                                          ![t].owner = "dropped"]
                    /\ sock' = CloseAll(owned, sock)
                    /\ nsets' = RemoveAllFromSets(nsets, owned)
    /\ UNCHANGED <<woken, lastPoll, seen, stray, threads>>

\* block_on polls the join again after its waker was invoked: every child
\* that is not done is polled in the new round
JoinBegin ==
    /\ woken[0] /\ \A t \in Tasks : ~Runnable(t)
    /\ woken' = [k \in DOMAIN woken |-> k \in Tasks /\ fut[k].st = "pending"]
    /\ UNCHANGED <<fut, lastPoll, seen, sock, nsets, stray, threads>>

\* waker.wake() on the waker of the join
JoinWake(i) ==
    /\ threads[i].kind = "wait" /\ threads[i].pc = "returned"
    /\ WakesOn(threads[i].res)
    /\ woken' = [woken EXCEPT ![0] = TRUE]
    /\ threads' = [threads EXCEPT ![i].pc = "woke", ![i].woke = TRUE]
    /\ UNCHANGED <<fut, lastPoll, seen, sock, nsets, stray>>

\* thread::sleep(500 ms); waker.wake() on the waker of the join
JoinSleepDone(i) ==
    /\ threads[i].kind = "sleep" /\ threads[i].pc = "blocked"
    /\ woken' = [woken EXCEPT ![0] = TRUE]
    /\ threads' = [threads EXCEPT ![i].pc = "done", ![i].woke = TRUE]
    /\ UNCHANGED <<fut, lastPoll, seen, sock, nsets, stray>>

\* the connecting socket reaches the listener: it becomes connected and the
\* listener has a connection to accept
NetHandshake ==
    /\ Started(2)
    /\ sock[2].status = "Connecting" /\ sock[1].status = "Listening"
    /\ sock' = [sock EXCEPT ![2].status = "Connected", ![1].backlog = @ + 1]
    /\ UNCHANGED <<fut, woken, lastPoll, seen, nsets, stray, threads>>

\* a byte pending on the accepted socket is delivered to the connector
NetDeliver ==
    LET a == AcceptedId(1)
    IN  /\ sock[a].status = "Connected" /\ sock[a].snddata > 0
        /\ sock[2].status = "Connected" /\ sock[2].rcvq < MaxBytes
        /\ sock' = [sock EXCEPT ![a].snddata = @ - 1, ![2].rcvq = @ + 1]
        /\ UNCHANGED <<fut, woken, lastPoll, seen, nsets, stray, threads>>

\* the peer of a closed socket finds the connection broken
NetPeerGone ==
    /\ \E p \in {<<2, AcceptedId(1)>>, <<AcceptedId(1), 2>>} :
          /\ sock[p[1]].status = "Closed" /\ sock[p[2]].status = "Connected"
          /\ sock' = [sock EXCEPT ![p[2]].status = "Broken"]
    /\ UNCHANGED <<fut, woken, lastPoll, seen, nsets, stray, threads>>

NextPair ==
    \/ \E t \in Tasks : PairPoll(t)
    \/ \E t \in Tasks : PairAdvance(t)
    \/ JoinBegin
    \/ \E i \in DOMAIN threads : WaitReturn(i)
    \/ \E i \in DOMAIN threads : JoinWake(i)
    \/ \E i \in DOMAIN threads : ThreadExit(i)
    \/ \E i \in DOMAIN threads : JoinSleepDone(i)
    \/ NetHandshake
    \/ NetDeliver
    \/ NetPeerGone

SpecPair == InitPair /\ [][NextPair]_vars

\* the threads run, the executor polls woken tasks and runs their async
\* blocks on, and the network delivers
FairPair ==
    /\ SpecPair
    /\ WF_vars(\E t \in Tasks : PairPoll(t))
    /\ WF_vars(\E t \in Tasks : PairAdvance(t))
    /\ WF_vars(JoinBegin)
    /\ WF_vars(\E i \in DOMAIN threads : WaitReturn(i))
    /\ WF_vars(\E i \in DOMAIN threads : JoinWake(i))
    /\ WF_vars(\E i \in DOMAIN threads : JoinSleepDone(i))
    /\ WF_vars(NetHandshake)
    /\ WF_vars(NetDeliver)

\* ------------------------------------------- lib.rs: the UdtAsyncBuilder
\* One builder (fut[1], with its opt_vec) and the socket it produces (sock[1]).
\* the options a setter of UdtAsyncBuilder pushes, with the values tried
SetterOpts ==
    [opt : {"Mss", "Fc", "SndBuf", "RcvBuf", "Linger", "SndTimeo", "RcvTimeo", "MaxBW"},
     val : {TRUE}]
      \cup [opt : {"Rendezvous", "ReuseAddr"}, val : BOOLEAN]

\* the number of setter calls made on one builder
MaxOpts == 2

\* the producing functions of UdtAsyncBuilder
Producers == {"bind_ipv4", "bind_ipv6", "connect_ipv4", "connect_ipv6",
              "listen_ipv4", "listen_ipv6"}

\* async_builder(): the option list starts with the two non-blocking options
async_builder == << [opt |-> "RcvSyn", val |-> FALSE], [opt |-> "SndSyn", val |-> FALSE] >>

\* udt_setsockopt for an option other than the two synchronisation modes: the
\* modes of the socket stay as they are
udt_setsockopt_other(sk, okNative) ==
    IF okNative THEN NativeRet(0, 0, sk) ELSE NativeRet(UDT_ERROR, 5000, sk)

\* set_option, but the result of the setter is not looked at
set_option_swallowError(o, sk, okNative) ==
    CASE o.opt = "SndSyn" ->
            [res |-> Ok(0), sk |-> udt_setsockopt_sndsyn(sk, o.val, okNative).sk]
      [] o.opt = "RcvSyn" ->
            [res |-> Ok(0), sk |-> udt_setsockopt_rcvsyn(sk, o.val, okNative).sk]
      [] OTHER ->
            [res |-> Ok(0), sk |-> udt_setsockopt_other(sk, okNative).sk]

\* one arm of the match in config_socket: the setter of socket.rs for o
set_option(o, sk, okNative) ==
    CASE o.opt = "SndSyn" ->
            LET n == udt_setsockopt_sndsyn(sk, o.val, okNative)
            IN  [res |-> UdtSocket_set_sndsyn(n), sk |-> n.sk]
      [] o.opt = "RcvSyn" ->
            LET n == udt_setsockopt_rcvsyn(sk, o.val, okNative)
            IN  [res |-> UdtSocket_set_rcvsyn(n), sk |-> n.sk]
      [] OTHER ->
            LET n == udt_setsockopt_other(sk, okNative)
            IN  [res |-> IF n.ret = UDT_ERROR THEN get_error(n.code, 0) ELSE Ok(0),
                 sk |-> n.sk]

\* config_socket: the options are applied in the order of opt_vec, from the
\* k-th on; the first failure is returned (failAt is the position of the
\* option the native library rejects, 0 for none)
RECURSIVE config_socket(_, _, _, _)
config_socket(opts, k, sk, failAt) ==
    IF k > Len(opts) THEN [res |-> Ok(0), sk |-> sk]
    ELSE LET n == set_option(opts[k], sk, k # failAt)
         IN  IF n.res.tag = "Err" THEN n
             ELSE config_socket(opts, k + 1, n.sk, failAt)

\* UdtSocket::new_ipv4 / new_ipv6, bind, connect and listen: the status the
\* socket has afterwards, with the native default of blocking modes on a new
\* socket
udt_socket == InitSock("Init", TRUE, TRUE)

StatusAfter(how) ==
    CASE how \in {"bind_ipv4", "bind_ipv6"} -> "Opened"
      [] how \in {"connect_ipv4", "connect_ipv6"} -> "Connecting"
      [] how \in {"listen_ipv4", "listen_ipv6"} -> "Listening"

InitBuilder ==
    /\ fut = [b \in {1} |-> [op |-> "build", socket |-> 0, st |-> "building", res |-> None,
                             polls |-> 0, owner |-> "alive", opt_vec |-> async_builder]]
    /\ woken = [b \in {1} |-> FALSE]
    /\ lastPoll = [b \in {1} |-> NoObs]
    /\ seen = [b \in {1} |-> <<>>]
    /\ sock = [s \in {1} |-> InitSock("NonExist", TRUE, TRUE)]
    /\ nsets = <<>>
    /\ stray = {}
    /\ threads = <<>>

\* a setter of UdtAsyncBuilder: the option is pushed onto opt_vec
BuilderSet(b) ==
    /\ fut[b].st = "building"
    /\ Len(fut[b].opt_vec) < Len(async_builder) + MaxOpts
    /\ \E o \in SetterOpts : fut' = [fut EXCEPT ![b].opt_vec = Append(@, o)]
    /\ UNCHANGED <<woken, lastPoll, seen, sock, nsets, stray, threads>>

\* bind_* / connect_* / listen_*: a new socket, config_socket, then bind,
\* connect or bind and listen, each with `?`.  stage is the native call that
\* fails: 1 the creation, 2 bind or connect, 3 listen, 0 none.
BuilderProduce(b) ==
    /\ fut[b].st = "building"
    /\ \E how \in Producers, stage \in 0 .. 3, failAt \in 0 .. Len(fut[b].opt_vec) :
          LET cfg == config_socket(fut[b].opt_vec, 1, udt_socket, failAt)
              failed(r, sk) ==
                  /\ fut' = [fut EXCEPT ![b].st = "failed", ![b].op = how, ![b].res = r]
                  /\ sock' = [sock EXCEPT ![1] = sk]
          IN  /\ stage = 3 => StatusAfter(how) = "Listening"
              /\ stage # 0 => failAt = 0
              /\ CASE stage = 1 -> failed(get_error(3000, 0), sock[1])
                   [] stage # 1 /\ cfg.res.tag = "Err" -> failed(cfg.res, cfg.sk)
                   [] stage = 2 /\ cfg.res.tag = "Ok" ->
                         failed(get_error(1003, 0), cfg.sk)
                   [] stage = 3 /\ cfg.res.tag = "Ok" ->
                         failed(get_error(5000, 0), [cfg.sk EXCEPT !.status = "Opened"])
                   [] stage = 0 /\ cfg.res.tag = "Ok" ->
                         /\ fut' = [fut EXCEPT ![b].st = "produced", ![b].op = how,
                                               ![b].socket = 1, ![b].res = Ok(1)]
                         /\ sock' = [sock EXCEPT ![1] =
                                        [cfg.sk EXCEPT !.status = StatusAfter(how)]]
    /\ UNCHANGED <<woken, lastPoll, seen, nsets, stray, threads>>

NextBuilder ==
    \/ \E b \in Tasks : BuilderSet(b)
    \/ \E b \in Tasks : BuilderProduce(b)

SpecBuilder == InitBuilder /\ [][NextBuilder]_vars

\* ------------------------- socket.rs / error.rs: the wrappers on their own
\* A caller (fut[1]) calls recv, send, accept and close on the sockets and
\* keeps what the native call returned (ret), the code get_error read (code)
\* and the wrapper's result (res).
\* udt_getlasterror_code as get_error reads it after the native call n: the
\* code the call recorded, or 0 when the slot reads as success (cleared)
udt_getlasterror_code(n, cleared) == IF cleared THEN [n EXCEPT !.code = 0] ELSE n

InitWrap ==
    /\ fut = [c \in {1} |-> [op |-> "none", socket |-> 0, st |-> "idle", res |-> None,
                             polls |-> 0, owner |-> "alive", ret |-> 0, code |-> 0]]
    /\ woken = [c \in {1} |-> FALSE]
    /\ lastPoll = [c \in {1} |-> NoObs]
    /\ seen = [c \in {1} |-> <<>>]
    /\ \E sts \in [DirectSocks -> {"Connected", "Listening", "Closed"}] :
          sock = [s \in DirectSocks \cup {AcceptedId(1)} |->
                     IF s \in DirectSocks THEN InitSock(sts[s], FALSE, FALSE)
                     ELSE InitSock("NonExist", TRUE, TRUE)]
    /\ nsets = <<>>
    /\ stray = {}
    /\ threads = <<>>

\* the caller c has made the call op on socket s: n is the native call as
\* get_error saw it, r the wrapper's result
Returned(c, op, s, n, r) ==
    /\ fut' = [fut EXCEPT ![c] = [@ EXCEPT !.op = op, !.socket = s, !.st = "returned",
                                          !.res = r, !.polls = @ + 1,
                                          !.ret = n.ret, !.code = n.code]]
    /\ sock' = [sock EXCEPT ![s] = n.sk]
    /\ UNCHANGED <<woken, lastPoll, seen, nsets, stray, threads>>

MayCall(c) == fut[c].polls < MaxCalls

\* socket.recv(buf)
CallRecv(c) ==
    /\ MayCall(c)
    /\ \E s \in DirectSocks, len \in 0 .. MaxBuf, cleared \in BOOLEAN :
          LET n == udt_getlasterror_code(udt_recv(sock[s], len), cleared)
          IN  Returned(c, "recv", s, n, UdtSocket_recv(n))

\* socket.send(buf)
CallSend(c) ==
    /\ MayCall(c)
    /\ \E s \in DirectSocks, len \in 0 .. MaxBuf, cleared \in BOOLEAN :
          LET n == udt_getlasterror_code(udt_send(sock[s], len), cleared)
          IN  Returned(c, "send", s, n, UdtSocket_send(n))

\* socket.accept()
CallAccept(c) ==
    /\ MayCall(c)
    /\ \E s \in DirectSocks, cleared \in BOOLEAN :
          LET n == udt_getlasterror_code(udt_accept(sock[s], AcceptedId(c)), cleared)
          IN  /\ n.ret # UDT_INVALID_SOCK => sock[n.ret].status = "NonExist"
              /\ Returned(c, "accept", s, n, UdtSocket_accept(n))

\* socket.close()
CallClose(c) ==
    /\ MayCall(c)
    /\ \E s \in DirectSocks, cleared \in BOOLEAN :
          LET n == udt_getlasterror_code(udt_close(sock[s]), cleared)
          IN  Returned(c, "close", s, n, UdtSocket_close(n))

NextWrap ==
    \/ \E c \in Tasks : CallRecv(c)
    \/ \E c \in Tasks : CallSend(c)
    \/ \E c \in Tasks : CallAccept(c)
    \/ \E c \in Tasks : CallClose(c)
    \/ \E s \in SockIds : EnvData(s)
    \/ \E s \in SockIds : EnvAck(s)
    \/ \E s \in SockIds : EnvIncoming(s)

SpecWrap == InitWrap /\ [][NextWrap]_vars

\* ================================================================ claims
\* a step is a poll step of task t
Polled(t) == fut'[t].polls = fut[t].polls + 1

\* r carries the error e (the conversion to io::Error keeps variant and text)
SameError(r, e) == r.tag = "Err" /\ r.err = e.err /\ r.msg = e.msg

\* the last poll step's suspension setup failed, and with which error
SetupFailed(o) == o.new.tag = "Err" \/ o.add.tag = "Err"
SetupError(o) == IF o.new.tag = "Err" THEN o.new ELSE o.add

\* C1: once the background wait of a suspension has returned and its thread
\* has run to its end, the task's waker was invoked, whether the wait
\* returned success or an error.
C1_WakeWheneverWaitReturns ==
    \A i \in DOMAIN threads :
        (threads[i].kind = "wait" /\ threads[i].pc = "done") => threads[i].woke

\* C2: a poll step of read, write, flush, close or accept whose would-block
\* branch fails to create the multiplexer or to register the socket resolves
\* on that step with that error and spawns no background thread.
C2_SetupFailureResolves ==
    [][\A t \in Tasks :
          (Polled(t) /\ SetupFailed(lastPoll'[t])) =>
              /\ fut'[t].st = "ready"
              /\ SameError(fut'[t].res, SetupError(lastPoll'[t]))
              /\ ~lastPoll'[t].spawned
              /\ threads' = threads]_vars

C2_Witness ==
    \E t \in Tasks :
        /\ lastPoll[t].new.tag = "Ok" /\ lastPoll[t].add.tag = "Err"
        /\ fut[t].st = "ready" /\ fut[t].res.tag = "Err"

\* C3: a poll_read whose recv succeeds resolves on that step with exactly the
\* byte count recv returned (the bytes that left the receive queue), creates
\* no multiplexer and spawns no thread; a recv error other than would-block
\* resolves on that step with that error.
C3_ReadResolvesDirectly ==
    [][\A t \in Tasks :
          (Polled(t) /\ fut[t].op = "read") =>
              LET a == lastPoll'[t].attempt
                  s == fut[t].socket
              IN  /\ a.tag = "Ok" =>
                        /\ fut'[t].st = "ready"
                        /\ fut'[t].res = Ok(a.val)
                        /\ a.val = sock[s].rcvq - sock'[s].rcvq
                        /\ nsets' = nsets /\ stray' = stray /\ threads' = threads
                  /\ (a.tag = "Err" /\ a.err # "AsyncRcv") =>
                        /\ fut'[t].st = "ready"
                        /\ SameError(fut'[t].res, a)
                        /\ nsets' = nsets /\ stray' = stray /\ threads' = threads]_vars

C3_Witness ==
    \E t \in Tasks :
        /\ fut[t].op = "read" /\ fut[t].st = "ready"
        /\ fut[t].res.tag = "Ok" /\ fut[t].res.val > 0
        /\ lastPoll[t].new = None /\ threads = <<>>

\* the poll step of t established a suspension on interest ev: it returned
\* not-ready, registered its socket (alone) under ev in a new native set and
\* spawned the thread that waits on it
Established(t, ev) ==
    LET e == lastPoll'[t].eid
        s == fut[t].socket
    IN  /\ fut'[t].st = "pending" /\ fut'[t].res = PollPending
        /\ Len(threads') = Len(threads) + 1
        /\ threads'[Len(threads')] =
               WaitThread(t, EpollStruct(e, IF HasIn(ev) THEN 1 ELSE 0,
                                            IF HasOut(ev) THEN 1 ELSE 0))
        /\ Len(nsets') = Len(nsets) + 1 /\ e = Len(nsets')
        /\ nsets'[e].live /\ nsets'[e].reg = {<<s, ev>>}

\* the poll step of t resolved with the error of its failed suspension setup
ResolvedSetupError(t) ==
    /\ SetupFailed(lastPoll'[t])
    /\ fut'[t].st = "ready"
    /\ SameError(fut'[t].res, SetupError(lastPoll'[t]))
    /\ threads' = threads

\* the first poll of a read on a connected socket with no data queued, on
\* which recv reports would-block
FirstReadNoData(t) ==
    /\ Polled(t) /\ fut[t].op = "read" /\ fut[t].polls = 0
    /\ sock[fut[t].socket].status = "Connected" /\ sock[fut[t].socket].rcvq = 0
    /\ lastPoll'[t].attempt.tag = "Err" /\ lastPoll'[t].attempt.err = "AsyncRcv"

\* a later poll of a suspended read that finds data queued resolves with the
\* byte count recv returns, and is made only after the wake
ReadAfterWake(t) ==
    (Polled(t) /\ fut[t].op = "read" /\ fut[t].st = "pending"
        /\ sock[fut[t].socket].rcvq > 0) =>
            /\ woken[t]
            /\ fut'[t].st = "ready" /\ fut'[t].res.tag = "Ok"
            /\ fut'[t].res = lastPoll'[t].attempt
            /\ fut'[t].res.val = sock[fut[t].socket].rcvq - sock'[fut[t].socket].rcvq

\* while a read is suspended after its first poll there is exactly one
\* background wait of it, and it is not polled again before it is woken
OneSuspension(t) ==
    (fut[t].op = "read" /\ fut[t].st = "pending" /\ fut[t].polls = 1) =>
        /\ Cardinality({i \in DOMAIN threads : threads[i].task = t}) = 1
        /\ (~woken[t] => ~ENABLED PollRead(t))

\* C4 as stated: for every socket with no data queued the first poll of a
\* read returns not-ready; after the data arrived and the wake fired the next
\* poll resolves with the byte count recv returns.
C4_FirstPollNotReady ==
    [][\A t \in Tasks : /\ FirstReadNoData(t) => fut'[t].st = "pending"
                        /\ ReadAfterWake(t)]_vars

\* C4 amended: for every connected socket with no data queued the first poll
\* of a read returns not-ready exactly once, unless creating the multiplexer
\* or registering the socket fails, in which case it resolves with that
\* error; after the data arrived and the wake fired the next poll resolves
\* with the byte count recv returns.
C4_FirstPollNotReadyUnlessSetupFails ==
    /\ [][\A t \in Tasks :
             /\ FirstReadNoData(t) =>
                   IF SetupFailed(lastPoll'[t]) THEN ResolvedSetupError(t)
                   ELSE Established(t, UDT_EPOLL_IN)
             /\ ReadAfterWake(t)]_vars
    /\ [](\A t \in Tasks : OneSuspension(t))

C4_Witness ==
    \E t \in Tasks :
        /\ fut[t].op = "read" /\ fut[t].polls = 2 /\ fut[t].st = "ready"
        /\ fut[t].res.tag = "Ok" /\ fut[t].res.val > 0
        /\ \E i \in DOMAIN threads : threads[i].task = t /\ threads[i].woke

\* the branches of a poll_write step other than the suspension (the query
\* returns the bytes pending when it is made: a byte acknowledged between the
\* query and the registration has left the buffer when the step ends)
WriteDirect(t) ==
    LET a == lastPoll'[t].attempt
        b == lastPoll'[t].snd
        s == fut[t].socket
    IN  /\ a.tag = "Ok" =>
              /\ fut'[t].st = "ready" /\ fut'[t].res = Ok(a.val) /\ b = None
              /\ a.val = sock'[s].snddata - sock[s].snddata
              /\ threads' = threads /\ nsets' = nsets
        /\ (a.tag = "Err" /\ a.err # "AsyncSnd") =>
              /\ fut'[t].st = "ready" /\ SameError(fut'[t].res, a) /\ b = None
              /\ threads' = threads /\ nsets' = nsets
        /\ (a.tag = "Err" /\ a.err = "AsyncSnd") =>
              /\ b # None
              /\ b.tag = "Ok" =>
                    b.val = sock'[s].snddata + (IF lastPoll'[t].gap THEN 1 ELSE 0)
              /\ (b.tag = "Ok" /\ b.val = 0) =>
                    /\ fut'[t].st = "ready" /\ fut'[t].res = Ok(0)
                    /\ threads' = threads /\ nsets' = nsets

\* send reported would-block and bytes are pending
WriteBlocked(t) ==
    /\ lastPoll'[t].attempt.tag = "Err" /\ lastPoll'[t].attempt.err = "AsyncSnd"
    /\ lastPoll'[t].snd.tag = "Ok" /\ lastPoll'[t].snd.val > 0

\* C5 as stated: poll_write resolves with the bytes accepted when send
\* succeeds; on would-block it queries the pending bytes, resolves with 0
\* when there are none and otherwise registers the socket for Write interest
\* and returns not-ready; every other send error resolves with that error.
C5_WriteBranches ==
    [][\A t \in Tasks :
          (Polled(t) /\ fut[t].op = "write") =>
              /\ WriteDirect(t)
              /\ WriteBlocked(t) => Established(t, UDT_EPOLL_OUT)]_vars

\* C5 amended: as C5, but with bytes pending the poll registers the socket
\* for Write interest and returns not-ready unless creating the multiplexer
\* or registering the socket fails, in which case it resolves with that
\* error.
C5_WriteBranchesUnlessSetupFails ==
    [][\A t \in Tasks :
          (Polled(t) /\ fut[t].op = "write") =>
              /\ WriteDirect(t)
              /\ WriteBlocked(t) =>
                    IF SetupFailed(lastPoll'[t]) THEN ResolvedSetupError(t)
                    ELSE Established(t, UDT_EPOLL_OUT)]_vars

C5_Witness ==
    \E t \in Tasks :
        /\ fut[t].op = "write" /\ fut[t].st = "pending"
        /\ lastPoll[t].attempt.err = "AsyncSnd" /\ lastPoll[t].snd.val > 0
        /\ \E i \in DOMAIN threads :
              threads[i].task = t /\ threads[i].epoll.num_wr_sock = 1

\* the poll step of a flush or close of t observed n pending bytes
ObservedPending(t) ==
    /\ Polled(t) /\ fut[t].op \in {"flush", "close"}
    /\ lastPoll'[t].snd.tag = "Ok"
    /\ lastPoll'[t].snd.val = sock[fut[t].socket].snddata

\* a flush or close resolves on the poll that observes no pending byte
ResolvesAtZero(t) ==
    (ObservedPending(t) /\ lastPoll'[t].snd.val = 0) =>
        /\ fut'[t].st = "ready"
        /\ fut[t].op = "flush" => fut'[t].res = Ok(0)

\* the pending-byte query of every flush / close poll reads the send buffer
QueryReadsBuffer(t) ==
    (Polled(t) /\ fut[t].op \in {"flush", "close"} /\ lastPoll'[t].snd.tag = "Ok") =>
        lastPoll'[t].snd.val = sock[fut[t].socket].snddata

\* C6 as stated: a flush or close future never resolves on a poll that
\* observes a pending-send-byte count greater than 0, and resolves on the
\* first poll that observes 0.
C6_NoResolveWhilePending ==
    [][\A t \in Tasks :
          /\ QueryReadsBuffer(t)
          /\ (ObservedPending(t) /\ lastPoll'[t].snd.val > 0) => fut'[t].st # "ready"
          /\ ResolvesAtZero(t)]_vars

\* C6 amended: a flush or close future never resolves with success on a poll
\* that observes a pending-send-byte count greater than 0, however many wake
\* cycles occurred: such a poll returns not-ready, or resolves with the error
\* of a failed multiplexer creation or registration; the future resolves on
\* the first poll that observes 0.
C6_NoSuccessWhilePending ==
    [][\A t \in Tasks :
          /\ QueryReadsBuffer(t)
          /\ (ObservedPending(t) /\ lastPoll'[t].snd.val > 0) =>
                IF SetupFailed(lastPoll'[t]) THEN ResolvedSetupError(t)
                ELSE fut'[t].st = "pending" /\ fut'[t].res = PollPending
          /\ ResolvesAtZero(t)]_vars

C6_Witness ==
    \E t \in Tasks :
        /\ fut[t].op = "flush" /\ fut[t].polls = 3 /\ fut[t].st = "ready"
        /\ fut[t].res = Ok(0) /\ lastPoll[t].snd = Ok(0)
        /\ Cardinality({i \in DOMAIN threads : threads[i].task = t /\ threads[i].woke}) = 2

\* the poll step of t invoked the native close on its socket
CloseInvoked(t) == sock'[fut[t].socket].closes = sock[fut[t].socket].closes + 1

\* poll_close closes only after observing no pending byte, and resolves with
\* the result of that close
CloseAtZero(t) ==
    /\ CloseInvoked(t) <=> lastPoll'[t].close # None
    /\ CloseInvoked(t) <=> (lastPoll'[t].snd.tag = "Ok" /\ lastPoll'[t].snd.val = 0)
    /\ CloseInvoked(t) =>
          /\ fut'[t].st = "ready"
          /\ fut'[t].res.tag = lastPoll'[t].close.tag
          /\ lastPoll'[t].close.tag = "Err" => SameError(fut'[t].res, lastPoll'[t].close)
          /\ lastPoll'[t].close.tag = "Ok" => sock'[fut[t].socket].status = "Closed"

\* C7 as stated: poll_close invokes close only on a poll that observed no
\* pending byte and resolves with the result of that close; on every poll
\* that observes bytes pending close is not invoked and the poll suspends
\* on Write interest.
C7_CloseAfterDrain ==
    [][\A t \in Tasks :
          (Polled(t) /\ fut[t].op = "close") =>
              /\ CloseAtZero(t)
              /\ (lastPoll'[t].snd.tag = "Ok" /\ lastPoll'[t].snd.val > 0) =>
                    ~CloseInvoked(t) /\ Established(t, UDT_EPOLL_OUT)]_vars

\* C7 amended: as C7, but a poll that observes bytes pending suspends on
\* Write interest unless creating the multiplexer or registering the socket
\* fails, in which case it resolves with that error; close is not invoked
\* either way.
C7_CloseAfterDrainUnlessSetupFails ==
    [][\A t \in Tasks :
          (Polled(t) /\ fut[t].op = "close") =>
              /\ CloseAtZero(t)
              /\ (lastPoll'[t].snd.tag = "Ok" /\ lastPoll'[t].snd.val > 0) =>
                    /\ ~CloseInvoked(t)
                    /\ IF SetupFailed(lastPoll'[t]) THEN ResolvedSetupError(t)
                       ELSE Established(t, UDT_EPOLL_OUT)]_vars

C7_Witness ==
    \E t \in Tasks :
        /\ fut[t].op = "close" /\ fut[t].polls >= 2 /\ fut[t].st = "ready"
        /\ fut[t].res = Ok(0) /\ lastPoll[t].close = Ok(0)
        /\ sock[fut[t].socket].closes = 1 /\ sock[fut[t].socket].status = "Closed"

\* C8: an accept future that resolves with success returns a socket whose
\* receive and send flags are both non-blocking, whatever the listener's
\* flags; when setting either flag fails it resolves with that error.
C8_AcceptedNonBlocking ==
    [][\A t \in Tasks :
          (Polled(t) /\ fut[t].op = "accept") =>
              LET a == lastPoll'[t].attempt
                  r == lastPoll'[t].cfg_r
                  w == lastPoll'[t].cfg_s
              IN  /\ fut'[t].res.tag = "Ok" =>
                        /\ a.tag = "Ok" /\ fut'[t].res.val = a.val
                        /\ sock'[a.val].status = "Connected"
                        /\ ~sock'[a.val].rcvsyn /\ ~sock'[a.val].sndsyn
                  /\ (a.tag = "Ok" /\ (r.tag = "Err" \/ w.tag = "Err")) =>
                        /\ fut'[t].st = "ready"
                        /\ SameError(fut'[t].res, IF r.tag = "Err" THEN r ELSE w)]_vars

C8_Witness ==
    \E t \in Tasks :
        /\ fut[t].op = "accept" /\ fut[t].st = "ready" /\ fut[t].res.tag = "Ok"
        /\ sock[fut[t].socket].rcvsyn /\ sock[fut[t].socket].sndsyn
        /\ ~sock[fut[t].res.val].rcvsyn /\ ~sock[fut[t].res.val].sndsyn

\* the timers ConnectFuture::poll scheduled for task t
Timers(t) == {i \in DOMAIN threads : threads[i].task = t /\ threads[i].kind = "sleep"}

AllConnecting(q) == \A j \in DOMAIN q : q[j] = "Connecting"

\* C9: while get_state answered Connecting to each of the k polls so far,
\* each poll returned not-ready (and scheduled one timer); when the next
\* poll sees Connected it resolves with success carrying the same socket.
\* (A future its holder dropped while suspended keeps its not-ready result.)
C9_ConnectSequence ==
    \A t \in Tasks :
        fut[t].op = "connect" =>
            /\ Len(seen[t]) = fut[t].polls
            /\ (fut[t].polls > 0 /\ AllConnecting(seen[t])) =>
                  /\ fut[t].st \in {"pending", "dropped"} /\ fut[t].res = PollPending
                  /\ Cardinality(Timers(t)) = fut[t].polls
            /\ (fut[t].polls > 0 /\ AllConnecting(SubSeq(seen[t], 1, fut[t].polls - 1))
                  /\ seen[t][fut[t].polls] = "Connected") =>
                  /\ fut[t].st = "ready" /\ fut[t].res = Ok(fut[t].socket)
                  /\ Cardinality(Timers(t)) = fut[t].polls - 1

C9_Witness ==
    \E t \in Tasks :
        /\ fut[t].op = "connect"
        /\ seen[t] = <<"Connecting", "Connecting", "Connected">>
        /\ fut[t].st = "ready" /\ fut[t].res = Ok(fut[t].socket)
        /\ Cardinality(Timers(t)) = 2

UsageStatuses == {"Init", "Opened", "Listening", "Closing", "Closed", "NonExist"}

\* C10: a poll of a connect future that sees a status other than Connecting
\* and Connected resolves with an error on that poll and schedules no timer,
\* and the future is not polled again: Broken gives ConnLost, each of Init,
\* Opened, Listening, Closing, Closed, NonExist gives a usage error that no
\* other status gives.
C10_ConnectErrors ==
    [][\A t \in Tasks :
          /\ (Polled(t) /\ fut[t].op = "connect"
                /\ seen'[t][Len(seen'[t])] \notin {"Connecting", "Connected"}) =>
                LET status == seen'[t][Len(seen'[t])]
                    r == fut'[t].res
                IN  /\ status = sock[fut[t].socket].status
                    /\ fut'[t].st = "ready" /\ r.tag = "Err"
                    /\ threads' = threads /\ ~lastPoll'[t].spawned
                    /\ status = "Broken" => r.err = "ConnLost"
                    /\ status \in UsageStatuses =>
                          /\ r.err \in {"UnboundSock", "InvOp", "InvSock"}
                          /\ \A other \in (UsageStatuses \cup {"Broken"}) \ {status} :
                                ~SameError(r, ConnectError(other))
          /\ (fut[t].op = "connect" /\ fut[t].st = "ready") => fut'[t] = fut[t]]_vars

C10_Witness ==
    \E t \in Tasks :
        /\ fut[t].op = "connect" /\ seen[t] = <<"Connecting", "Broken">>
        /\ fut[t].st = "ready" /\ fut[t].res.err = "ConnLost"
        /\ Cardinality(Timers(t)) = 1

\* a poll of a connect future that observes Connecting schedules exactly one
\* timer of the fixed delay and returns not-ready
SchedulesTimer(t) ==
    (Polled(t) /\ fut[t].op = "connect" /\ sock[fut[t].socket].status = "Connecting") =>
        /\ fut'[t].st = "pending"
        /\ threads' = Append(threads, SleepThread(t))
        /\ threads'[Len(threads')].timeout = CONNECT_DELAY_MS

\* a timer that ran to its end has invoked the waker, whatever happened to
\* the socket meanwhile
TimerWakes(i) ==
    (threads[i].kind = "sleep" /\ threads[i].pc = "blocked" /\ threads'[i] # threads[i]) =>
        /\ threads'[i].pc = "done" /\ threads'[i].woke
        /\ woken'[threads[i].task]

\* the socket of the connect future of t has left Connecting while the
\* future can still be polled
LeftConnecting(t) ==
    /\ fut[t].op = "connect"
    /\ sock[fut[t].socket].status # "Connecting"
    /\ fut[t].polls < MaxPolls

\* C11: every poll of a connect future that observes Connecting schedules
\* one timer that wakes the task unconditionally after the fixed delay; under
\* fair scheduling a connect future whose socket has left Connecting is
\* polled again and resolves (unless its holder drops it first).
C11_ConnectTimerWakes ==
    /\ [][/\ \A t \in Tasks : SchedulesTimer(t)
          /\ \A i \in DOMAIN threads : TimerWakes(i)]_vars
    /\ \A t \in InitTasks : LeftConnecting(t) ~> (fut[t].st \in {"ready", "dropped"})

C11_Witness ==
    \E t \in Tasks :
        /\ fut[t].op = "connect" /\ fut[t].polls = 2 /\ fut[t].st = "ready"
        /\ seen[t][1] = "Connecting"
        /\ \E i \in DOMAIN threads :
              /\ threads[i] = [SleepThread(t) EXCEPT !.pc = "done", !.woke = TRUE]

\* the attempted operation (recv, send or accept) of the poll step of t
\* reported a would-block condition
WouldBlockReported(t) ==
    /\ Polled(t) /\ fut[t].op \in {"read", "write", "accept"}
    /\ lastPoll'[t].attempt.tag = "Err"
    /\ ErrorKind(lastPoll'[t].attempt.err) = "WouldBlock"

\* the interest a suspension of operation op registers
InterestOf(op) == IF op \in {"read", "accept"} THEN UDT_EPOLL_IN ELSE UDT_EPOLL_OUT

\* the future was given a would-block error as its resolution
WouldBlockDelivered(r) == r.tag = "Err" /\ ErrorKind(r.err) = "WouldBlock"

\* a would-block write resolved from its pending-byte query: zero bytes
\* pending resolve Ok(0), a failed query resolves with the query's error
WriteQueryResolved(t) ==
    LET b == lastPoll'[t].snd
    IN  /\ fut[t].op = "write" /\ fut'[t].st = "ready" /\ threads' = threads
        /\ \/ b.tag = "Ok" /\ b.val = 0 /\ fut'[t].res = Ok(0)
           \/ b.tag = "Err" /\ SameError(fut'[t].res, b)

PollErrors(t) ==
    LET o == lastPoll'[t]
    IN  {e \in {o.snd, o.cfg_r, o.cfg_s, o.new, o.add, o.close} : e.tag = "Err"}
          \cup (IF o.attempt.tag = "Err" /\ ~WouldBlockReported(t)
                THEN {o.attempt} ELSE {})

\* a poll step in which an operation returned an error resolves with one of
\* the errors returned
ErrorsCarried(t) ==
    (Polled(t) /\ PollErrors(t) # {}) =>
        /\ fut'[t].st = "ready"
        /\ \E e \in PollErrors(t) : SameError(fut'[t].res, e)

\* the error of a background wait that has ended reached the task: its waker
\* was invoked, or the future holds the error
WaitErrorCarried(i) ==
    (threads[i].kind = "wait" /\ threads[i].pc = "done" /\ threads[i].res.tag = "Err") =>
        \/ threads[i].woke
        \/ /\ fut[threads[i].task].st = "ready"
           /\ SameError(fut[threads[i].task].res, threads[i].res)

\* C13: every error returned by an operation performed for a future (the
\* attempted operation, the pending-byte query, socket configuration after
\* accept, multiplexer create/register, and the background wait) is carried
\* in that future's resolution.
C13_ErrorsCarried ==
    /\ [][\A t \in Tasks : ErrorsCarried(t)]_vars
    /\ [](\A i \in DOMAIN threads : WaitErrorCarried(i))

\* some poll function is called on the future of t
PollStep(t) ==
    \/ PollRead(t) \/ PollWrite(t) \/ PollFlush(t)
    \/ PollClose(t) \/ PollAccept(t) \/ PollConnect(t)

\* a poll step executes no step of a background thread: the threads that
\* exist stay where they are, and the one thread a poll may spawn has not
\* begun its wait(-1) or its 500 ms sleep when the poll returns
PollLeavesWaitToThread(t) ==
    Polled(t) =>
        /\ Len(threads') \in {Len(threads), Len(threads) + 1}
        /\ \A i \in DOMAIN threads : threads'[i] = threads[i]
        /\ \A i \in DOMAIN threads' \ DOMAIN threads :
              /\ threads'[i].task = t
              /\ threads'[i].pc = "blocked" /\ threads'[i].res = None /\ ~threads'[i].woke
              /\ threads'[i].timeout =
                    (IF threads'[i].kind = "wait" THEN WAIT_FOREVER ELSE CONNECT_DELAY_MS)
        /\ ~woken'[t]

\* a blocked wait or sleep ends only in a step that polls no future
WaitEndsOffPoll(i) ==
    (threads[i].pc = "blocked" /\ threads'[i].pc # "blocked") => fut' = fut

\* C14: no poll step of any future adapter blocks the polling thread: a poll
\* the scheduler may make can always run to its return whatever the
\* readiness of the socket, it performs only the non-blocking attempt, the
\* query, multiplexer create/register and the thread spawn, and the blocking
\* wait(-1) and the 500 ms sleep are executed only by background threads.
C14_PollNeverBlocks ==
    /\ [][/\ \A t \in Tasks : PollLeavesWaitToThread(t)
          /\ \A i \in DOMAIN threads : WaitEndsOffPoll(i)]_vars
    /\ [](\A t \in Tasks : CanPoll(t) => ENABLED PollStep(t))

C14_Witness ==
    \E t \in Tasks :
        /\ fut[t].op = "flush" /\ fut[t].st = "pending" /\ fut[t].polls = 1
        /\ sock[fut[t].socket].snddata > 0
        /\ \E i \in DOMAIN threads :
              /\ threads[i].task = t /\ threads[i].pc = "blocked"
              /\ ~WaitCanReturn(threads[i].epoll.id, nsets, sock)
              /\ ~WaitFails(threads[i].epoll.id, nsets)

\* the step drops the future of t or the owner of its socket
Dropped(t) ==
    \/ fut[t].st # "dropped" /\ fut'[t].st = "dropped"
    \/ fut[t].owner = "alive" /\ fut'[t].owner = "dropped"

\* the background wait i is blocked with its multiplexer unreleased
BlockedUnreleased(i) ==
    /\ threads[i].kind = "wait" /\ threads[i].pc = "blocked"
    /\ nsets[threads[i].epoll.id].live
    /\ ~\E k \in DOMAIN nsets[threads[i].epoll.id].log :
           nsets[threads[i].epoll.id].log[k] = "release"

\* a blocked background wait stays blocked, with its multiplexer unreleased,
\* in every step but the one in which the native wait call returns
StaysBlocked(i) ==
    (threads[i].kind = "wait" /\ threads[i].pc = "blocked") =>
        \/ threads'[i] = threads[i] /\ BlockedUnreleased(i)'
        \/ /\ threads'[i].pc = "returned" /\ threads'[i].res # None
           /\ WaitCanReturn(threads[i].epoll.id, nsets, sock)
                 \/ WaitFails(threads[i].epoll.id, nsets)
           /\ fut' = fut /\ nsets' = nsets

\* C16: if a future (or its stream or listener) is dropped while a suspension
\* is outstanding, the background wait it launched is not cancelled: the drop
\* leaves every thread as it is, and the wait stays blocked, with its
\* multiplexer unreleased, until the native wait call itself returns.
C16_DropDoesNotCancel ==
    [][/\ \A t \in Tasks : Dropped(t) => threads' = threads
       /\ \A i \in DOMAIN threads : StaysBlocked(i)]_vars

\* a dropped future whose background wait is blocked and cannot return
C16_Witness ==
    \E t \in Tasks :
        /\ fut[t].st = "dropped" \/ fut[t].owner = "dropped"
        /\ \E i \in DOMAIN threads :
              /\ threads[i].task = t /\ BlockedUnreleased(i)
              /\ ~WaitCanReturn(threads[i].epoll.id, nsets, sock)
              /\ ~WaitFails(threads[i].epoll.id, nsets)

\* the events of the suspension of background wait i so far: the calls made
\* on its native set, and whether the wait has returned and the waker was
\* invoked
SuspensionOrder(i) ==
    LET log == nsets[threads[i].epoll.id].log
    IN  threads[i].kind = "wait" =>
            /\ Len(log) >= 2 /\ log[1] = "create" /\ log[2] = "add"
            /\ threads[i].pc = "blocked" => log = <<"create", "add">>
            /\ threads[i].woke =>
                  /\ threads[i].res # None
                  /\ log = <<"create", "add", "release">>

\* C19: within each suspension the events occur in the order create
\* multiplexer, register socket, wait, release multiplexer, wake: when the
\* task's waker has been invoked the multiplexer was already released.
C19_ReleaseBeforeWake ==
    \A i \in DOMAIN threads : SuspensionOrder(i)

\* the sockets registered in native set id for Read / for Write interest
RegisteredRead(id) == {p[1] : p \in {q \in nsets[id].reg : HasIn(q[2])}}
RegisteredWrite(id) == {p[1] : p \in {q \in nsets[id].reg : HasOut(q[2])}}

\* the counters of the Epoll of holder i equal the numbers of sockets
\* registered in its native set
CountersMatch(i) ==
    Holding(i) =>
        /\ threads[i].epoll.num_rd_sock = Cardinality(RegisteredRead(threads[i].epoll.id))
        /\ threads[i].epoll.num_wr_sock = Cardinality(RegisteredWrite(threads[i].epoll.id))

\* an add or remove call of holder i that returned an error changed neither
\* counter
FailedCallKeepsCounters(i) ==
    (Holding(i) /\ threads'[i] # threads[i] /\ threads'[i].res.tag = "Err") =>
        threads'[i].epoll = threads[i].epoll

\* C17: after any interleaving of successful and failed Epoll::add and
\* Epoll::remove calls on one multiplexer, num_rd_sock equals the number of
\* sockets currently registered for Read interest and num_wr_sock the number
\* registered for Write interest; a failed call changes neither counter.
C17_CountersMatchRegistered ==
    /\ [](\A i \in DOMAIN threads : CountersMatch(i))
    /\ [][\A i \in DOMAIN threads : FailedCallKeepsCounters(i)]_vars

\* udt_epoll_release was called once on native set id
ReleasedOnce(id) ==
    /\ id \notin stray
    /\ ~nsets[id].live
    /\ Cardinality({k \in DOMAIN nsets[id].log : nsets[id].log[k] = "release"}) = 1

\* C18: every multiplexer that was successfully created has its native
\* readiness set released exactly once over its lifetime: never twice, and
\* once when its owner is through with it (drop, explicit release, or the
\* end of the background thread).
C18_ReleasedExactlyOnce ==
    /\ \A id \in DOMAIN nsets : id \notin stray
    /\ \A i \in DOMAIN threads :
          (threads[i].kind \in {"direct", "wait"}
              /\ threads[i].pc \in {"released", "dropped", "panicked", "done"}) =>
                  ReleasedOnce(threads[i].epoll.id)

\* the bytes the futures of operation op have given task t so far
RECURSIVE SumOf(_, _)
SumOf(h, op) ==
    IF h = <<>> THEN 0
    ELSE (IF h[1][1] = op /\ h[1][2].tag = "Ok" THEN h[1][2].val ELSE 0)
         + SumOf(Tail(h), op)

Moved(t, op) ==
    SumOf(fut[t].hist, op)
    + (IF fut[t].op = op /\ fut[t].st = "ready" /\ fut[t].res.tag = "Ok"
       THEN fut[t].res.val ELSE 0)

\* both async blocks ran to their end
AllDone == \A t \in Tasks : fut[t].st = "done"

\* the model stops polling: the thread bound or a future's poll bound is
\* reached
Capped ==
    \/ Len(threads) >= MaxThreads
    \/ \E t \in Tasks : fut[t].st = "pending" /\ fut[t].polls >= MaxPolls

\* the connector has read a prefix of what the acceptor wrote: the bytes of
\* the stream are delivered in order, so the k-th byte read is the k-th byte
\* written, and every byte written is read, queued or still pending
ReadsWhatWasWritten ==
    /\ Moved(2, "read") <= Moved(1, "write")
    /\ Moved(2, "read") + sock[2].rcvq + sock[AcceptedId(1)].snddata = Moved(1, "write")

\* what the two tasks have awaited when both are done
CompletedRun ==
    LET h1 == fut[1].hist
        h2 == fut[2].hist
    IN  /\ h1 = << <<"accept", Ok(AcceptedId(1))>>, <<"write", Ok(MsgLen)>>,
                   <<"close", Ok(0)>> >>
        /\ Len(h2) >= 3
        /\ h2[1] = <<"connect", Ok(2)>>
        /\ h2[Len(h2)] = <<"close", Ok(0)>>
        /\ \A k \in 2 .. (Len(h2) - 1) :
              h2[k][1] = "read" /\ h2[k][2].tag = "Ok" /\ h2[k][2].val > 0
        /\ SumOf(h2, "read") = MsgLen
        /\ SumOf(h1, "write") = MsgLen

ConnectSawBroken(t) ==
    /\ fut[t].st = "failed" /\ Len(fut[t].hist) = 1
    /\ fut[t].hist[1][1] = "connect" /\ fut[t].hist[1][2].err = "ConnLost"
    /\ "Connected" \notin {seen[t][k] : k \in DOMAIN seen[t]}
    /\ seen[t][Len(seen[t])] = "Broken"
    /\ \A u \in PairTasks \ {t} : fut[u].st = "done"

BlockedWaits(t) ==
    {i \in DOMAIN threads :
        threads[i].task = t /\ threads[i].kind = "wait" /\ threads[i].pc = "blocked"}

\* C20: at every moment the blocked background waits are those of the futures
\* that are currently suspended, each wait on its own readiness set: one
\* future never has more than one outstanding background wait, also when the
\* scheduler polls it again without its own wake having fired.
C20_OneWaitPerSuspendedFuture ==
    /\ \A t \in Tasks :
          /\ Cardinality(BlockedWaits(t)) <= 1
          /\ BlockedWaits(t) # {} => fut[t].st = "pending"
    /\ \A i, j \in DOMAIN threads :
          (i # j /\ threads[i].kind = "wait" /\ threads[j].kind = "wait") =>
              threads[i].epoll.id # threads[j].epoll.id

\* the number of times call c was made on native set id
CallsOn(id, c) == Cardinality({k \in DOMAIN nsets[id].log : nsets[id].log[k] = c})

\* the multiplexer of background wait i: one registration under one interest
\* was made in it, its counters say so, and no other thread holds it
PrivateSet(i) ==
    LET e == threads[i].epoll
    IN  threads[i].kind = "wait" =>
            /\ e.id \in DOMAIN nsets
            /\ <<e.num_rd_sock, e.num_wr_sock>> \in {<<1, 0>>, <<0, 1>>}
            /\ CallsOn(e.id, "create") = 1 /\ CallsOn(e.id, "add") = 1
            /\ Cardinality(nsets[e.id].reg) <= 1
            /\ \A p \in nsets[e.id].reg :
                  p[2] = (IF e.num_rd_sock = 1 THEN UDT_EPOLL_IN ELSE UDT_EPOLL_OUT)
            /\ \A j \in DOMAIN threads :
                  (j # i /\ threads[j].kind = "wait") => threads[j].epoll.id # e.id

\* a poll step of t that spawns a wait does so on a set created in that step,
\* holding the future's socket alone under one interest
SpawnsOnFreshSet(t) ==
    (Polled(t) /\ lastPoll'[t].spawned /\ fut[t].op # "connect") =>
        \E ev \in {UDT_EPOLL_IN, UDT_EPOLL_OUT} : Established(t, ev)

\* the wait on a multiplexer is made once: a thread that left its wait does
\* not wait again, and its Epoll value never changes
WaitsOnce(i) ==
    threads[i].kind = "wait" =>
        /\ threads'[i].epoll = threads[i].epoll
        /\ threads[i].pc # "blocked" => threads'[i].pc # "blocked"

\* C21: every multiplexer created by a future adapter is private to one
\* suspension: exactly one socket is registered in it, under exactly one
\* interest, so its counters are (1,0) or (0,1) when waited on; it is waited
\* on exactly once and is never shared with another future or reused by a
\* later poll.
C21_PrivateMultiplexer ==
    /\ [](\A i \in DOMAIN threads : PrivateSet(i))
    /\ [][/\ \A t \in Tasks : SpawnsOnFreshSet(t)
          /\ \A i \in DOMAIN threads : WaitsOnce(i)]_vars

\* a future suspended a second time while the thread of its first suspension
\* has ended: two multiplexers, the later one in use
C21_Witness ==
    \E i, j \in DOMAIN threads :
        /\ i < j /\ threads[i].task = threads[j].task
        /\ threads[i].kind = "wait" /\ threads[i].pc = "done"
        /\ threads[j].kind = "wait" /\ threads[j].pc = "blocked"
        /\ nsets[threads[j].epoll.id].live
        /\ Cardinality(nsets[threads[j].epoll.id].reg) = 1

\* the registrations <<set id, <<socket, interest>>>> the step adds
NewRegistrations ==
    {x \in UNION {{<<e, p>> : p \in nsets'[e].reg} : e \in DOMAIN nsets'} :
        x[1] \notin DOMAIN nsets \/ x[2] \notin nsets[x[1]].reg}

\* a registration is made by a poll step of a stalled operation, for the
\* socket of its future: Read interest for read and accept (accept on the
\* socket that listens), Write interest for write, flush and close
RegisteredFor(t, p) ==
    /\ Polled(t) /\ lastPoll'[t].add = Ok(0)
    /\ p[1] = fut[t].socket
    /\ fut[t].op \in {"read", "accept"} => p[2] = UDT_EPOLL_IN
    /\ fut[t].op \in {"write", "flush", "close"} => p[2] = UDT_EPOLL_OUT
    /\ fut[t].op \in {"read", "accept", "write", "flush", "close"}
    /\ fut[t].op = "accept" => p[1] # AcceptedId(t) /\ sock[p[1]].status = "Listening"

\* C22: the interest registered by a suspension is determined by the stalled
\* operation: read and accept register Read interest (accept on the listening
\* socket, not on any accepted socket), and write, flush and close register
\* Write interest; no suspension registers the other interest or both.
C22_InterestByOperation ==
    [][/\ \A x \in NewRegistrations : \E t \in Tasks : RegisteredFor(t, x[2])
       /\ \A t \in Tasks :
             (Polled(t) /\ lastPoll'[t].spawned /\ fut[t].op # "connect") =>
                 /\ Cardinality(NewRegistrations) = 1
                 /\ Established(t, InterestOf(fut[t].op))]_vars

\* a close suspended on Write interest while bytes are pending
C22_Witness ==
    \E t \in Tasks :
        /\ fut[t].op = "close" /\ fut[t].st = "pending"
        /\ sock[fut[t].socket].snddata > 0
        /\ \E i \in DOMAIN threads :
              /\ threads[i].task = t /\ threads[i].kind = "wait"
              /\ nsets[threads[i].epoll.id].reg = {<<fut[t].socket, UDT_EPOLL_OUT>>}
              /\ threads[i].epoll.num_wr_sock = 1 /\ threads[i].epoll.num_rd_sock = 0

\* C23: the native close operation is invoked at most once on any socket
\* handle: after poll_close has closed the socket, dropping the stream does
\* not close the same handle again.
C23_ClosedAtMostOnce ==
    \A s \in SockIds : sock[s].closes <= 1

\* the step called udt_epoll_release: on a live set (its log grows by a
\* release) or on an id that is no live set (recorded in stray)
ReleaseCalled ==
    \/ stray' # stray
    \/ \E id \in DOMAIN nsets : CallsOn(id, "release")' > CallsOn(id, "release")

\* C24: a failed multiplexer creation releases no native readiness set: a
\* poll step whose Epoll::new returned an error calls the native release on
\* no set id, in particular not on id 0.
C24_FailedNewReleasesNothing ==
    [][\A t \in Tasks :
          (Polled(t) /\ lastPoll'[t].new.tag = "Err") =>
              ~ReleaseCalled /\ 0 \notin stray']_vars

\* the poll step of t created a multiplexer and failed to register its socket
AddFailed(t) ==
    Polled(t) /\ lastPoll'[t].new.tag = "Ok" /\ lastPoll'[t].add.tag = "Err"

\* C26: when a multiplexer was created for a suspension but registering the
\* socket in it fails, that multiplexer is released exactly once before the
\* poll returns its error, so a failed suspension setup leaves no readiness
\* set allocated.
C26_FailedAddReleasesSet ==
    [][\A t \in Tasks :
          AddFailed(t) =>
              LET e == lastPoll'[t].eid
              IN  /\ fut'[t].st = "ready" /\ SameError(fut'[t].res, lastPoll'[t].add)
                  /\ DOMAIN nsets' = DOMAIN nsets \cup {e} /\ e \notin DOMAIN nsets
                  /\ nsets'[e].log = <<"create", "release">>
                  /\ ~nsets'[e].live /\ nsets'[e].reg = {}
                  /\ stray' = stray /\ threads' = threads
                  /\ \A id \in DOMAIN nsets : nsets'[id] = nsets[id]]_vars

\* an accept resolved with the error of its failed registration, no set of
\* its own left allocated
C26_Witness ==
    \E t \in Tasks :
        /\ fut[t].op = "accept" /\ fut[t].st = "ready" /\ fut[t].res.tag = "Err"
        /\ lastPoll[t].new.tag = "Ok" /\ lastPoll[t].add.tag = "Err"
        /\ ~nsets[lastPoll[t].eid].live
        /\ CallsOn(lastPoll[t].eid, "release") = 1

\* the poll step of t accepted a connection and failed to configure the new
\* socket as non-blocking
AcceptConfigFailed(t) ==
    /\ Polled(t) /\ fut[t].op = "accept" /\ lastPoll'[t].attempt.tag = "Ok"
    /\ lastPoll'[t].cfg_r.tag = "Err" \/ lastPoll'[t].cfg_s.tag = "Err"

\* C27: when accept succeeds but configuring the accepted socket as
\* non-blocking fails, the accepted socket handle is closed before the accept
\* future resolves with the error, so no accepted socket is left open without
\* an owner.
C27_FailedConfigClosesAccepted ==
    [][\A t \in Tasks :
          AcceptConfigFailed(t) =>
              /\ fut'[t].st = "ready" /\ fut'[t].res.tag = "Err"
              /\ sock'[lastPoll'[t].attempt.val].status \in {"Closed", "NonExist"}]_vars

\* C28: the multiplexer counters never go below zero: Epoll::remove
\* decrements num_rd_sock or num_wr_sock only when that counter is at least 1
\* (no subtraction wraps around to usize::MAX and none panics), for every
\* event mask get_event reports for the socket being removed.
C28_CountersNeverBelowZero ==
    \A i \in DOMAIN threads :
        /\ threads[i].epoll.num_rd_sock >= 0
        /\ threads[i].epoll.num_wr_sock >= 0
        /\ threads[i].pc # "panicked"

\* C29: every socket produced by UdtAsyncBuilder (bind, connect or listen,
\* IPv4 or IPv6) has both its send and its receive mode set to non-blocking,
\* for every sequence of builder setter calls: the two non-blocking options
\* are the first of the option list and no later option sets either mode back
\* to blocking.
C29_ProducedSocketsNonBlocking ==
    \A b \in Tasks :
        /\ Len(fut[b].opt_vec) >= 2
        /\ fut[b].opt_vec[1] = [opt |-> "RcvSyn", val |-> FALSE]
        /\ fut[b].opt_vec[2] = [opt |-> "SndSyn", val |-> FALSE]
        /\ \A k \in 3 .. Len(fut[b].opt_vec) : fut[b].opt_vec[k].opt \notin {"RcvSyn", "SndSyn"}
        /\ fut[b].st = "produced" =>
              ~sock[fut[b].socket].rcvsyn /\ ~sock[fut[b].socket].sndsyn

\* a listener produced after two setter calls
C29_Witness ==
    \E b \in Tasks :
        /\ fut[b].st = "produced" /\ fut[b].op = "listen_ipv6"
        /\ Len(fut[b].opt_vec) = Len(async_builder) + 2
        /\ sock[fut[b].socket].status = "Listening"
        /\ ~sock[fut[b].socket].rcvsyn /\ ~sock[fut[b].socket].sndsyn

\* the error sentinel of the native call behind wrapper op
Sentinel(op) == IF op = "accept" THEN UDT_INVALID_SOCK ELSE UDT_ERROR

\* C30: whenever a native call returns its error sentinel, the wrapping
\* operation returns an error and never a success value, also when the last
\* error code reads as success.
C30_SentinelGivesError ==
    \A c \in Tasks :
        (fut[c].st = "returned" /\ fut[c].ret = Sentinel(fut[c].op)) =>
            fut[c].res.tag = "Err"

\* the background wait of the last suspension of task t
LastWaitOf(t) ==
    {i \in DOMAIN threads :
        /\ threads[i].kind = "wait" /\ threads[i].task = t
        /\ threads[i].epoll.id = lastPoll[t].eid}

\* the last poll of t suspended, and its socket became ready between the
\* attempt (or the pending-byte query) and the registration
BecameReadyInGap(t) == fut[t].st = "pending" /\ lastPoll[t].gap

\* the background wait of that suspension returned and the task was woken
WaitReturnedAndWoke(t) ==
    \E i \in LastWaitOf(t) : threads[i].res.tag = "Ok" /\ threads[i].woke

\* the future or its owner was dropped, or the connection or listener is gone
GaveUp(t) ==
    \/ fut[t].st = "dropped" \/ fut[t].owner = "dropped"
    \/ sock[fut[t].socket].status \notin {"Connected", "Listening"}

\* C25: no wake-up is lost to the gap between the attempt and the
\* registration: if the socket becomes ready after the poll's non-blocking
\* attempt reported would-block (or found bytes pending) but before the
\* socket is registered in the new multiplexer, the background wait still
\* returns and the task is woken (as long as the future, its owner and the
\* connection are there).
C25_NoLostWakeup ==
    \A t \in InitTasks : BecameReadyInGap(t) ~> (WaitReturnedAndWoke(t) \/ GaveUp(t))
====
